---- MODULE Spec2Model ----
(***************************************************************************)
(* KPI analytics and insight core of the SLMG BI Portal.                   *)
(*                                                                         *)
(* services/kpi_service.py, services/swot_service.py and                   *)
(* services/ai_service.py are modelled as operators computed the way the   *)
(* Python computes them; each action of the state machine is one call of   *)
(* one of these functions by a route handler, with the arguments the       *)
(* handler can pass (Dashboard.kpis is whatever JSON list a client stored).*)
(*                                                                         *)
(* Numbers.  KPI figures are Python floats.  The model draws them from     *)
(* small integers, on which float arithmetic is exact.  Quantities the     *)
(* code rounds to one decimal (pct, gap_pct, change_pct, score) are kept   *)
(* as an integer number of TENTHS: pct = 965 stands for 96.5.  Within the  *)
(* bounds used here no quotient falls exactly halfway between two tenths,  *)
(* so Python's round() and RoundHalfEven agree.                            *)
(*                                                                         *)
(* Exceptions.  A call either returns a value, Return(v), or lets an       *)
(* exception escape, Raise(e).                                             *)
(***************************************************************************)
EXTENDS Integers, Sequences, FiniteSets, TLC

VARIABLES
    op,       \* the function the request runs, "none" between requests
    args,     \* its arguments, the configured credential included
    pc,       \* "idle", "awaiting_reply" (the POST is out), "done"
    calls,    \* outbound calls (urlopen) made by this invocation
    request,  \* the body of the POST to the external service, None before
    reply,    \* what the external service answered, None before
    outcome,  \* Return(value) or Raise(exception) of the call
    users,    \* the users table: the row of every user id that exists
    now       \* datetime.utcnow(), in minutes

vars == <<op, args, pc, calls, request, reply, outcome, users, now>>

----------------------------------------------------------------------------
(* Bounds of the model *)

\* calculate_kpi_health / calculate_kpi_trend are explored on -MaxNum..MaxNum
MaxNum == 10
\* longest KPI list handed to enrich_kpis and its callers
MaxKpis == 2
\* longest list of well-formed, named KPIs (a dashboard's portfolio)
MaxPortfolio == 4

Nums == (0 - MaxNum)..MaxNum

----------------------------------------------------------------------------
(* Python values *)

Num(n) == [tag |-> "num", n |-> n]
Str(s) == [tag |-> "str", s |-> s]
None == [tag |-> "none"]
Dict(items) == [tag |-> "dict", items |-> items]

Return(v) == [returned |-> v]
Raise(e) == [raised |-> e]
Returned(r) == "returned" \in DOMAIN r
Raised(r) == "raised" \in DOMAIN r

\* dict.get(key, default)
Get(items, key, default) == IF key \in DOMAIN items THEN items[key] ELSE default

\* {**a, **b}: the keys of both, b's values winning
Merge(a, b) == [k \in (DOMAIN a) \cup (DOMAIN b) |-> IF k \in DOMAIN b THEN b[k] ELSE a[k]]

\* the strings of the model that float() parses, with the number each denotes
NumericStrings == [s \in {"9"} |-> 9]

\* float(x) succeeds: x is a number or a string holding a number
CanFloat(x) ==
    \/ x.tag = "num"
    \/ x.tag = "str" /\ x.s \in DOMAIN NumericStrings

\* float(x), where it succeeds
ToFloat(x) == IF x.tag = "num" THEN x.n ELSE NumericStrings[x.s]

Abs(n) == IF n < 0 THEN 0 - n ELSE n

\* as RoundHalfEven, cutting the quotient off instead of rounding it
RoundDown(n, d) == n \div d

\* n/d rounded to the nearest integer, halves to the even neighbour: round()
RoundHalfEven(n, d) ==
    LET nn == IF d < 0 THEN 0 - n ELSE n
        dd == Abs(d)
        q == nn \div dd
        r == nn % dd
    IN  IF 2 * r > dd THEN q + 1
        ELSE IF 2 * r < dd THEN q
        ELSE IF q % 2 = 0 THEN q ELSE q + 1

\* round(n/d * 100, 1), in tenths
PctTenths(n, d) == RoundHalfEven(n * 1000, d)

----------------------------------------------------------------------------
(* services/kpi_service.py *)

\* as NoTargetHealth, with a missing target classified as below target
NoTargetHealth_red == [status |-> "RED", color |-> "#EF4444", label |-> "Below Target", pct |-> 0]

\* the branch of calculate_kpi_health taken for target = 0
NoTargetHealth == [status |-> "NEUTRAL", color |-> "#6B7280", label |-> "No Target", pct |-> 0]

\* as calculate_kpi_health, with GREEN only above the target
calculate_kpi_health_strict(value, target) ==
    IF target = 0 THEN NoTargetHealth
    ELSE LET status == IF value > target THEN "GREEN"
                       ELSE IF 10 * value >= 9 * target THEN "YELLOW"
                       ELSE "RED"
         IN  [status |-> status,
              color |-> "#000000",
              label |-> status,
              pct |-> PctTenths(value, target),
              gap |-> target - value,
              gap_pct |-> PctTenths(target - value, target)]

calculate_kpi_health(value, target) ==
    IF target = 0 THEN NoTargetHealth
    ELSE LET status == IF value >= target THEN "GREEN"
                       ELSE IF 10 * value >= 9 * target THEN "YELLOW"
                       ELSE "RED"
         IN  [status |-> status,
              color |-> CASE status = "GREEN" -> "#22C55E"
                          [] status = "YELLOW" -> "#F59E0B"
                          [] OTHER -> "#EF4444",
              label |-> CASE status = "GREEN" -> "On Target"
                          [] status = "YELLOW" -> "Near Target"
                          [] OTHER -> "Below Target",
              pct |-> PctTenths(value, target),
              gap |-> target - value,
              gap_pct |-> PctTenths(target - value, target)]

icon_map == [UP |-> "up-arrow", DOWN |-> "down-arrow", STABLE |-> "right-arrow"]
color_map == [UP |-> "#22C55E", DOWN |-> "#EF4444", STABLE |-> "#6B7280"]

\* as calculate_kpi_trend, dividing by previous_value instead of abs(previous_value)
calculate_kpi_trend_signed(value, previous_value) ==
    LET change_pct == IF previous_value = 0 THEN 0
                      ELSE PctTenths(value - previous_value, previous_value)
        direction == IF previous_value = 0 THEN "STABLE"
                     ELSE IF value > previous_value THEN "UP"
                     ELSE IF value < previous_value THEN "DOWN"
                     ELSE "STABLE"
    IN  [direction |-> direction,
         change_pct |-> change_pct,
         change_abs |-> value - previous_value,
         icon |-> icon_map[direction],
         color |-> color_map[direction]]

calculate_kpi_trend(value, previous_value) ==
    LET change_pct == IF previous_value = 0 THEN 0
                      ELSE PctTenths(value - previous_value, Abs(previous_value))
        direction == IF previous_value = 0 THEN "STABLE"
                     ELSE IF value > previous_value THEN "UP"
                     ELSE IF value < previous_value THEN "DOWN"
                     ELSE "STABLE"
    IN  [direction |-> direction,
         change_pct |-> change_pct,
         change_abs |-> value - previous_value,
         icon |-> icon_map[direction],
         color |-> color_map[direction]]

\* what the except branch of enrich_kpis adds to the entry
FailedHealth == [status |-> "NEUTRAL", color |-> "#6B7280"]
FailedTrend == [direction |-> "STABLE"]

\* the three float() coercions of the try block all succeed
Coercible(items) ==
    /\ CanFloat(Get(items, "value", Num(0)))
    /\ CanFloat(Get(items, "target", Num(0)))
    /\ LET value == ToFloat(Get(items, "value", Num(0)))
       IN  CanFloat(Get(items, "previousValue", Num(value)))

\* as EnrichedEntry, with a missing previousValue read as 0
EnrichedEntry_zero_previous(items) ==
    LET value == ToFloat(Get(items, "value", Num(0)))
        target == ToFloat(Get(items, "target", Num(0)))
        previous == ToFloat(Get(items, "previousValue", Num(0)))
    IN  Dict(Merge(items, [value |-> Num(value),
                           target |-> Num(target),
                           previousValue |-> Num(previous),
                           health |-> calculate_kpi_health(value, target),
                           trend |-> calculate_kpi_trend(value, previous)]))

\* the try block of enrich_kpis for a dict whose coercions succeed
EnrichedEntry(items) ==
    LET value == ToFloat(Get(items, "value", Num(0)))
        target == ToFloat(Get(items, "target", Num(0)))
        previous == ToFloat(Get(items, "previousValue", Num(value)))
    IN  Dict(Merge(items, [value |-> Num(value),
                           target |-> Num(target),
                           previousValue |-> Num(previous),
                           health |-> calculate_kpi_health(value, target),
                           trend |-> calculate_kpi_trend(value, previous)]))

\* as DefaultedEntry, with the defaults replacing the entry instead of joining it
DefaultedEntry_bare(items) == Dict([health |-> FailedHealth, trend |-> FailedTrend])

\* the except branch of enrich_kpis for a dict
DefaultedEntry(items) == Dict(Merge(items, [health |-> FailedHealth, trend |-> FailedTrend]))

\* One iteration of the loop of enrich_kpis.  An entry that is no dict has no
\* .get (AttributeError, caught), and the except branch then unpacks it with
\* {**kpi, ...}, which raises TypeError outside any try.
EnrichStep(kpi) ==
    IF kpi.tag # "dict" THEN Raise("TypeError")
    ELSE IF Coercible(kpi.items) THEN Return(EnrichedEntry(kpi.items))
    ELSE Return(DefaultedEntry(kpi.items))

\* as EnrichLoop, with each enriched entry put in front of the earlier ones
RECURSIVE EnrichLoop_prepend(_, _, _)
EnrichLoop_prepend(kpis, i, enriched) ==
    IF i > Len(kpis) THEN Return(enriched)
    ELSE LET step == EnrichStep(kpis[i])
         IN  IF Raised(step) THEN step
             ELSE EnrichLoop_prepend(kpis, i + 1, <<step.returned>> \o enriched)

RECURSIVE EnrichLoop(_, _, _)
EnrichLoop(kpis, i, enriched) ==
    IF i > Len(kpis) THEN Return(enriched)
    ELSE LET step == EnrichStep(kpis[i])
         IN  IF Raised(step) THEN step
             ELSE EnrichLoop(kpis, i + 1, Append(enriched, step.returned))

enrich_kpis(kpis) == EnrichLoop(kpis, 1, <<>>)

\* sum(1 for k in enriched if k['health']['status'] == status)
CountStatus(enriched, status) ==
    Cardinality({i \in 1..Len(enriched) : enriched[i].items["health"].status = status})

EmptySummary == [total |-> 0, green |-> 0, yellow |-> 0, red |-> 0, score |-> 0, label |-> "No Data"]

\* as get_dashboard_kpi_summary, with the weights of YELLOW and RED exchanged
get_dashboard_kpi_summary_swapped(kpis) ==
    IF Len(kpis) = 0 THEN Return(EmptySummary)
    ELSE LET e == enrich_kpis(kpis)
         IN  IF Raised(e) THEN e
             ELSE LET enriched == e.returned
                      total == Len(enriched)
                      green == CountStatus(enriched, "GREEN")
                      yellow == CountStatus(enriched, "YELLOW")
                      red == CountStatus(enriched, "RED")
                      score == RoundHalfEven((green * 100 + yellow * 30 + red * 70) * 10, total)
                  IN  Return([total |-> total, green |-> green, yellow |-> yellow, red |-> red,
                              score |-> score,
                              label |-> IF score >= 800 THEN "Healthy"
                                        ELSE IF score >= 600 THEN "Moderate"
                                        ELSE "At Risk",
                              enriched_kpis |-> enriched])

get_dashboard_kpi_summary(kpis) ==
    IF Len(kpis) = 0 THEN Return(EmptySummary)
    ELSE LET e == enrich_kpis(kpis)
         IN  IF Raised(e) THEN e
             ELSE LET enriched == e.returned
                      total == Len(enriched)
                      green == CountStatus(enriched, "GREEN")
                      yellow == CountStatus(enriched, "YELLOW")
                      red == CountStatus(enriched, "RED")
                      score == RoundHalfEven((green * 100 + yellow * 70 + red * 30) * 10, total)
                  IN  Return([total |-> total, green |-> green, yellow |-> yellow, red |-> red,
                              score |-> score,
                              label |-> IF score >= 800 THEN "Healthy"
                                        ELSE IF score >= 600 THEN "Moderate"
                                        ELSE "At Risk",
                              enriched_kpis |-> enriched])

----------------------------------------------------------------------------
(* services/swot_service.py *)
(* A sentence is kept as the figures it is built from, not as its wording. *)

Health(k) == Get(k.items, "health", <<>>)
Trend(k) == Get(k.items, "trend", <<>>)

\* the sentence generate_swot appends to a bucket for one enriched KPI
SwotSentence(bucket, k) ==
    [bucket |-> bucket,
     name |-> Get(k.items, "name", Str("KPI")),
     pct |-> Get(Health(k), "pct", 0),
     direction |-> Get(Trend(k), "direction", "STABLE"),
     change_pct |-> Get(Trend(k), "change_pct", 0)]

\* as InBucket, with every RED KPI a weakness whatever its trend
InBucket_any_red(bucket, k) ==
    LET status == Get(Health(k), "status", "RED")
        direction == Get(Trend(k), "direction", "STABLE")
    IN  CASE bucket = "strengths" -> status = "GREEN"
          [] bucket = "weaknesses" -> status # "GREEN" /\ status = "RED"
          [] bucket = "opportunities" -> status \in {"YELLOW", "RED"} /\ direction = "UP"
          [] bucket = "threats" -> status = "RED" /\ direction = "DOWN"

\* as InBucket, with every declining KPI below target a threat
InBucket_yellow_threat(bucket, k) ==
    LET status == Get(Health(k), "status", "RED")
        direction == Get(Trend(k), "direction", "STABLE")
    IN  CASE bucket = "strengths" -> status = "GREEN"
          [] bucket = "weaknesses" -> status # "GREEN" /\ status = "RED" /\ direction # "UP"
          [] bucket = "opportunities" -> status \in {"YELLOW", "RED"} /\ direction = "UP"
          [] bucket = "threats" -> status \in {"YELLOW", "RED"} /\ direction = "DOWN"

\* the if / elif / if / if of the loop of generate_swot
InBucket(bucket, k) ==
    LET status == Get(Health(k), "status", "RED")
        direction == Get(Trend(k), "direction", "STABLE")
    IN  CASE bucket = "strengths" -> status = "GREEN"
          [] bucket = "weaknesses" -> status # "GREEN" /\ status = "RED" /\ direction # "UP"
          [] bucket = "opportunities" -> status \in {"YELLOW", "RED"} /\ direction = "UP"
          [] bucket = "threats" -> status = "RED" /\ direction = "DOWN"

SwotBucket(bucket, enriched) ==
    LET sel == SelectSeq(enriched, LAMBDA k : InBucket(bucket, k))
    IN  [i \in 1..Len(sel) |-> SwotSentence(bucket, sel[i])]

\* the sentence standing in for an empty bucket
SwotPlaceholder(bucket, department) ==
    <<[bucket |-> bucket, placeholder |-> TRUE, department |-> department]>>

\* what generate_swot returns for an empty KPI list
EmptySwot ==
    [strengths |-> <<>>, weaknesses |-> <<>>, opportunities |-> <<>>, threats |-> <<>>,
     summary |-> [text |-> "No KPI data available for SWOT analysis."]]

SwotBuckets == <<"strengths", "weaknesses", "opportunities", "threats">>

generate_swot(dashboard_title, department, kpis) ==
    IF Len(kpis) = 0 THEN Return(EmptySwot)
    ELSE LET e == enrich_kpis(kpis)
         IN  IF Raised(e) THEN e
             ELSE LET enriched == e.returned
                      found == [b \in {"strengths", "weaknesses", "opportunities", "threats"} |->
                                   SwotBucket(b, enriched)]
                      total == Len(enriched)
                      green_count == CountStatus(enriched, "GREEN")
                      red_count == CountStatus(enriched, "RED")
                      health_score == IF total > 0 THEN RoundHalfEven(green_count * 100, total)
                                      ELSE 0
                      shown(b) == IF found[b] # <<>> THEN found[b]
                                  ELSE SwotPlaceholder(b, department)
                  IN  Return([strengths |-> shown("strengths"),
                              weaknesses |-> shown("weaknesses"),
                              opportunities |-> shown("opportunities"),
                              threats |-> shown("threats"),
                              summary |-> [department |-> department,
                                           title |-> dashboard_title,
                                           parts |-> SelectSeq(
                                               [i \in 1..4 |-> [bucket |-> SwotBuckets[i],
                                                                count |-> Len(found[SwotBuckets[i]]),
                                                                total |-> total]],
                                               LAMBDA part : part.count > 0),
                                           health_score |-> health_score],
                              health_score |-> health_score,
                              kpi_counts |-> [total |-> total, green |-> green_count,
                                              red |-> red_count]])

----------------------------------------------------------------------------
(* services/ai_service.py: the executive summary *)

BriefKeys == {"executive_summary", "risk_analysis", "strategic_recommendation",
              "overall_rating", "priority_action"}

HasName(k) == "name" \in DOMAIN k.items

\* seq[:n]
Take(seq, n) == SubSeq(seq, 1, IF n < Len(seq) THEN n ELSE Len(seq))

\* [k for k in kpis if k.get('health', {}).get('status') == status]
WithStatus(kpis, status) ==
    SelectSeq(kpis, LAMBDA k : Get(Health(k), "status", "None") = status)

\* [k for k in kpis if k.get('trend', {}).get('direction') == direction]
WithDirection(kpis, direction) ==
    SelectSeq(kpis, LAMBDA k : Get(Trend(k), "direction", "None") = direction)

\* min(red, key=lambda x: x.get('health', {}).get('pct', 100)): the first of the lowest
Worst(red) ==
    LET key(k) == Get(Health(k), "pct", 1000)
    IN  red[CHOOSE i \in 1..Len(red) :
                \A j \in 1..Len(red) : key(red[i]) < key(red[j])
                                       \/ (key(red[i]) = key(red[j]) /\ i <= j)]

\* max(improving, key=lambda x: x.get('trend', {}).get('change_pct', 0)): the first of the highest
Best(improving) ==
    LET key(k) == Get(Trend(k), "change_pct", 0)
    IN  improving[CHOOSE i \in 1..Len(improving) :
                \A j \in 1..Len(improving) : key(improving[i]) > key(improving[j])
                                       \/ (key(improving[i]) = key(improving[j]) /\ i <= j)]

\* what _rule_based_summary returns when there is no KPI
NoDataBrief ==
    [executive_summary |-> [text |-> "No KPI data available for analysis."],
     risk_analysis |-> [text |-> "Cannot assess risk without data."],
     strategic_recommendation |-> [text |-> "Add KPI data to enable analysis."],
     overall_rating |-> "Critical",
     priority_action |-> [text |-> "Add KPI targets and actuals."],
     source |-> "Rule-Based Engine"]

\* kpis is the enriched list, swot the SWOT dict or {}
_rule_based_summary(title, department, kpis, swot, commentary) ==
    LET total == Len(kpis)
        green == WithStatus(kpis, "GREEN")
        yellow == WithStatus(kpis, "YELLOW")
        red == WithStatus(kpis, "RED")
        declining == WithDirection(kpis, "DOWN")
        improving == WithDirection(kpis, "UP")
        health_score == Get(swot, "health_score", 0)
        rating == IF health_score >= 80 THEN "Excellent"
                  ELSE IF health_score >= 60 THEN "Good"
                  ELSE IF health_score >= 40 THEN "Moderate"
                  ELSE "Critical"
        risky == Take(declining \o red, 3)
        \* the KPIs whose k['name'] is read; a missing name is a KeyError
        named == Take(green, 2) \o Take(red, 2) \o risky
                 \o (IF red # <<>> THEN <<Worst(red)>> ELSE <<>>)
                 \o (IF improving # <<>> THEN <<Best(improving)>> ELSE <<>>)
                 \o (IF red # <<>> THEN <<red[1]>> ELSE <<>>)
        names(seq) == [i \in 1..Len(seq) |-> seq[i].items["name"]]
    IN  IF total = 0 THEN Return(NoDataBrief)
        ELSE IF \E i \in 1..Len(named) : ~HasName(named[i]) THEN Raise("KeyError")
        ELSE Return(
            [executive_summary |-> [department |-> department, title |-> title,
                                    health_score |-> health_score,
                                    on_target |-> [count |-> Len(green), names |-> names(Take(green, 2))],
                                    attention |-> [count |-> Len(red), names |-> names(Take(red, 2))]],
             risk_analysis |-> [department |-> department,
                                parts |-> [i \in 1..Len(risky) |->
                                              [name |-> risky[i].items["name"],
                                               pct |-> Get(Health(risky[i]), "pct", 0),
                                               direction |-> Get(Trend(risky[i]), "direction", "N/A")]]],
             strategic_recommendation |->
                 [department |-> department,
                  parts |-> (IF red # <<>>
                             THEN <<[action |-> "Prioritise", name |-> Worst(red).items["name"],
                                     figure |-> Get(Health(Worst(red)), "pct", 0)]>>
                             ELSE <<>>)
                            \o (IF improving # <<>>
                                THEN <<[action |-> "Accelerate", name |-> Best(improving).items["name"],
                                        figure |-> Get(Trend(Best(improving)), "change_pct", 0)]>>
                                ELSE <<>>)],
             overall_rating |-> rating,
             priority_action |-> IF red # <<>>
                                 THEN [action |-> "Escalate", name |-> red[1].items["name"]]
                                 ELSE [action |-> "Maintain", total |-> total],
             source |-> "Rule-Based Engine (set ANTHROPIC_API_KEY for AI-powered insights)"])

\* The answers of the external service to one POST, as _call_claude meets them:
\* urlopen raising, a body that is not the expected envelope, or a text.
\* fence: the text is wrapped in a code fence (``` followed by json or by nothing).
\* body: what is inside - no JSON, a JSON array, or a JSON object.
GoodBrief ==
    [executive_summary |-> [text |-> "ai"], risk_analysis |-> [text |-> "ai"],
     strategic_recommendation |-> [text |-> "ai"], overall_rating |-> "Good",
     priority_action |-> [text |-> "ai"]]

ReplyBodies ==
    {[json |-> "invalid"], [json |-> "array"],
     [json |-> "object", value |-> GoodBrief],
     [json |-> "object", value |-> [GoodBrief EXCEPT !["overall_rating"] = "Outstanding"]],
     [json |-> "object", value |-> [k \in {"executive_summary"} |-> GoodBrief[k]]]}

Replies ==
    {[kind |-> "URLError"], [kind |-> "timeout"], [kind |-> "bad_envelope"]}
    \cup {[kind |-> "text", fence |-> f, body |-> b] : f \in {"none", "json"}, b \in ReplyBodies}

\* _call_claude from urlopen on: the text of the answer, or the exception
ReplyText(r) ==
    CASE r.kind = "URLError" -> Raise("URLError")
      [] r.kind = "timeout" -> Raise("TimeoutError")
      [] r.kind = "bad_envelope" -> Raise("KeyError")
      [] r.kind = "text" -> Return(r)

\* _call_anthropic_summary after _call_claude: strip the fence, json.loads, tag the source
ParseBrief(r) ==
    LET text == ReplyText(r)
    IN  IF Raised(text) THEN text
        ELSE LET body == text.returned.body
             IN  CASE body.json = "invalid" -> Raise("JSONDecodeError")
                   [] body.json = "array" -> Raise("TypeError")
                   [] body.json = "object" ->
                        Return(Merge(body.value, [source |-> "AI-Powered (Claude)"]))

\* the try / except around enrich_kpis in generate_ai_summary
EnrichedOrEmpty(kpis) ==
    LET e == enrich_kpis(kpis) IN IF Raised(e) THEN <<>> ELSE e.returned

\* the try / except around generate_swot in generate_ai_summary
SwotOrEmpty(title, department, kpis) ==
    LET w == generate_swot(title, department, kpis) IN IF Raised(w) THEN <<>> ELSE w.returned

\* the kpi_data lines of the prompt read k['name'] of every enriched KPI
PromptBuilds(enriched) == \A i \in 1..Len(enriched) : HasName(enriched[i])

\* the last line of generate_ai_summary
SummaryFallback(a) ==
    _rule_based_summary(a.title, a.department, EnrichedOrEmpty(a.kpis),
                        SwotOrEmpty(a.title, a.department, a.kpis), a.commentary)

----------------------------------------------------------------------------
(* services/ai_service.py: the chat *)
(* A text is kept as its sequence of words; x in q is word containment.    *)

\* str.lower() on the words of the model
Lower(w) ==
    CASE w = "Sales" -> "sales"
      [] w = "Finance" -> "finance"
      [] w = "Margins" -> "margins"
      [] OTHER -> w

\* question.lower()
LowerText(text) == [i \in 1..Len(text) |-> Lower(text[i])]

\* w in q
Contains(q, w) == \E i \in 1..Len(q) : q[i] = w

\* any(w in q for w in words)
ContainsAny(q, words) == \E w \in words : Contains(q, w)

\* conversation_history[-8:]
HistoryWindow == 8

ChatMessages_whole(question, conversation_history) ==
    LET kept == SelectSeq(conversation_history,
                          LAMBDA h : /\ Get(h, "role", "None") \in {"user", "assistant"}
                                     /\ Get(h, "content", "") # "")
    IN  [i \in 1..Len(kept) |-> [role |-> kept[i].role, content |-> kept[i].content]]
        \o <<[role |-> "user", content |-> question]>>

\* the messages list of generate_ai_chat_response
ChatMessages(question, conversation_history) ==
    LET n == Len(conversation_history)
        recent == SubSeq(conversation_history,
                         IF n > HistoryWindow THEN n - HistoryWindow + 1 ELSE 1, n)
        kept == SelectSeq(recent, LAMBDA h : /\ Get(h, "role", "None") \in {"user", "assistant"}
                                             /\ Get(h, "content", "") # "")
    IN  [i \in 1..Len(kept) |-> [role |-> kept[i].role, content |-> kept[i].content]]
        \o <<[role |-> "user", content |-> question]>>

\* uploaded_data and uploaded_data.get('rows')
HasRows(uploaded_data) ==
    /\ uploaded_data # None
    /\ Get(uploaded_data, "rows", <<>>) # <<>>

\* the order in which a row lists its columns
ColumnOrder == <<"region", "sales">>

\* uploaded_data.get('columns', list(rows[0].keys()))
UploadColumns(uploaded_data) ==
    Get(uploaded_data, "columns",
        SelectSeq(ColumnOrder, LAMBDA c : c \in DOMAIN uploaded_data.rows[1]))

\* the block of _rule_based_chat_with_data that answers from the uploaded rows
UploadAnswer(q, uploaded_data) ==
    LET rows == uploaded_data.rows
        cols == UploadColumns(uploaded_data)
        filename == Get(uploaded_data, "filename", "file")
        num_cols == SelectSeq(cols, LAMBDA c : CanFloat(Get(rows[1], c, Str(""))))
    IN  IF ContainsAny(q, {"summary", "overview", "kitne", "total", "count"})
        THEN [kind |-> "upload_summary", filename |-> filename, rows |-> Len(rows),
              columns |-> Len(cols), listed |-> Take(cols, 10), first |-> Take(rows, 3)]
        ELSE IF /\ ContainsAny(q, {"chart", "graph", "bar", "plot", "dikhao"})
                /\ num_cols # <<>> /\ cols # <<>>
        THEN LET shown == Take(rows, 8)
             IN  [kind |-> "upload_chart", chart_type |-> "bar",
                  label_col |-> cols[1], val_col |-> num_cols[1],
                  labels |-> [i \in 1..Len(shown) |-> Get(shown[i], cols[1], Str(""))],
                  values |-> [i \in 1..Len(shown) |->
                                 LET v == Get(shown[i], num_cols[1], Num(0))
                                 IN  IF CanFloat(v) THEN ToFloat(v) ELSE 0]]
        ELSE [kind |-> "upload_notice", filename |-> filename, rows |-> Len(rows)]

TargetDashboard_last(q, dashboards) ==
    LET matches(d) == Contains(q, Lower(d.title)) \/ Contains(q, Lower(d.department))
    IN  IF \E i \in 1..Len(dashboards) : matches(dashboards[i])
        THEN dashboards[CHOOSE i \in 1..Len(dashboards) :
                            /\ matches(dashboards[i])
                            /\ \A j \in (i + 1)..Len(dashboards) : ~matches(dashboards[j])]
        ELSE dashboards[1]

\* the for loop choosing relevant, and target = relevant or dashboards[0]
TargetDashboard(q, dashboards) ==
    LET matches(d) == Contains(q, Lower(d.title)) \/ Contains(q, Lower(d.department))
    IN  IF \E i \in 1..Len(dashboards) : matches(dashboards[i])
        THEN dashboards[CHOOSE i \in 1..Len(dashboards) :
                            /\ matches(dashboards[i])
                            /\ \A j \in 1..(i - 1) : ~matches(dashboards[j])]
        ELSE dashboards[1]

_rule_based_chat_with_data(question, dashboards, uploaded_data) ==
    LET q == LowerText(question)
    IN  IF HasRows(uploaded_data) THEN UploadAnswer(q, uploaded_data)
        ELSE IF dashboards = <<>> THEN [kind |-> "no_dashboards"]
        ELSE LET target == TargetDashboard(q, dashboards)
                 enriched == EnrichedOrEmpty(target.kpis)
                 green == Len(WithStatus(enriched, "GREEN"))
             IN  [kind |-> "dashboard_status", title |-> target.title,
                  department |-> target.department,
                  tracked |-> Len(enriched), on_target |-> green]

\* the last line of generate_ai_chat_response
ChatFallback(a) == Return(_rule_based_chat_with_data(a.question, a.dashboards, a.uploaded_data))

----------------------------------------------------------------------------
(* The KPI lists a caller can pass: Dashboard.kpis is any JSON list *)

KpiKeys == {"name", "value", "target", "previousValue"}
KpiValues == {8, 9, 10}
KpiTargets == {0, 10}
KpiPrevious == {0, 9}

Kpi(v, t, p) == [name |-> Str("Revenue"), value |-> v, target |-> t, previousValue |-> p]

\* every field present and numeric
WellFormedKpis ==
    {Dict(Kpi(Num(v), Num(t), Num(p))) : v \in KpiValues, t \in KpiTargets, p \in KpiPrevious}

\* one KPI with any of its keys missing
PartialKpis ==
    LET base == Kpi(Num(10), Num(10), Num(9))
    IN  {Dict([k \in S |-> base[k]]) : S \in SUBSET KpiKeys}

\* one KPI with a field that is no number: text, null, or a number as text
NonNumericKpis ==
    LET base == Kpi(Num(9), Num(10), Num(9))
    IN  {Dict([base EXCEPT ![k] = x]) :
            k \in {"value", "target", "previousValue"}, x \in {Str("abc"), None, Str("9")}}

\* list entries that are not JSON objects
NonMappingEntries == {None, Num(5)}

KpiEntries == WellFormedKpis \cup PartialKpis \cup NonNumericKpis \cup NonMappingEntries

KpiLists == {<<>>} \cup UNION {[1..n -> KpiEntries] : n \in 1..MaxKpis}

NamedKpi(name, v, t, p) ==
    Dict([name |-> Str(name), value |-> Num(v), target |-> Num(t), previousValue |-> Num(p)])

\* well-formed KPIs, one for each combination of status and direction that
\* generate_swot and _rule_based_summary tell apart
PortfolioKpis ==
    {NamedKpi("Volume", 10, 10, 9),     \* GREEN, UP
     NamedKpi("Outlets", 9, 9, 10),     \* GREEN, DOWN
     NamedKpi("Margin", 9, 10, 8),      \* YELLOW, UP
     NamedKpi("Collections", 9, 10, 10),\* YELLOW, DOWN
     NamedKpi("Cost", 7, 10, 6),        \* RED at 70%, UP
     NamedKpi("Churn", 8, 10, 9),       \* RED at 80%, DOWN
     NamedKpi("Leads", 5, 0, 5)}        \* no target: NEUTRAL, STABLE

PortfolioLists == {<<>>} \cup UNION {[1..n -> PortfolioKpis] : n \in 1..MaxPortfolio}

\* the portfolios an executive brief is asked for: every reply of the model
\* is explored for each of them, so they are the shorter ones
BriefLists == {<<>>} \cup UNION {[1..n -> PortfolioKpis] : n \in 1..MaxKpis}

\* the chat requests of the model
Questions ==
    {<<"Sales", "summary">>, <<"show", "chart">>, <<"worst", "Finance", "kpi">>, <<"hello">>,
     <<"compare", "sales", "margins">>}

Dashboard(title, department, kpis) ==
    [title |-> title, department |-> department, category |-> "Performance",
     kpis |-> kpis, commentary |-> "", ai_context |-> ""]

DashboardLists ==
    LET sales == Dashboard("Sales", "Sales", <<Dict(Kpi(Num(10), Num(10), Num(9))),
                                               Dict(Kpi(Num(8), Num(10), Num(9)))>>)
        margins == Dashboard("Margins", "Finance", <<None>>)
    IN  {<<>>, <<sales>>, <<margins>>, <<sales, margins>>, <<margins, sales>>}

\* a conversation longer than any window: alternating turns, one of them a
\* tool turn
LongConversation ==
    LET said == <<"q1", "a1", "q2", "a2", "q3", "a3", "q4", "a4", "q5", "a5", "q6">>
    IN  [i \in 1..Len(said) |->
            [role |-> IF i = 6 THEN "tool" ELSE IF i % 2 = 1 THEN "user" ELSE "assistant",
             content |-> said[i]]]

Histories ==
    {<<>>,
     <<[role |-> "user", content |-> "hi"], [role |-> "system", content |-> "be brief"],
       [role |-> "assistant", content |-> ""], [role |-> "assistant", content |-> "hello"]>>,
     LongConversation}

Uploads ==
    {None,
     [filename |-> "q3.csv", rows |-> <<>>, columns |-> <<>>],
     [filename |-> "q3.csv", columns |-> <<"region", "sales">>,
      rows |-> <<[region |-> Str("north"), sales |-> Str("9")],
                 [region |-> Str("south"), sales |-> Str("abc")]>>],
     [rows |-> <<[region |-> Str("north")]>>]}

----------------------------------------------------------------------------
(* app.py: the users the database is seeded with *)

\* _seed_data: the admin and two of the department users
SeedUsers ==
    [i \in 1..3 |->
        [email |-> <<"admin@slmg.com", "finance@slmg.com", "hr@slmg.com">>[i],
         role |-> <<"Admin", "Analyst", "Viewer">>[i],
         department |-> <<"Operations", "Finance", "HR">>[i],
         is_active |-> TRUE, failed_logins |-> 0, locked_until |-> None]]

UserIds == DOMAIN SeedUsers

----------------------------------------------------------------------------
(* The state machine.  The core is stateless: a request starts from the     *)
(* idle state, one action performs the call (the calls that reach the       *)
(* external service wait for its reply in between), and Finish hands the    *)
(* outcome to the caller and returns to idle.                               *)

Init ==
    /\ op = "none"
    /\ args = <<>>
    /\ pc = "idle"
    /\ calls = 0
    /\ request = None
    /\ reply = None
    /\ outcome = Return(None)
    /\ users = SeedUsers
    /\ now = 0

Call_calculate_kpi_health ==
    /\ pc = "idle"
    /\ \E value \in Nums, target \in Nums :
        /\ op' = "calculate_kpi_health"
        /\ args' = [value |-> value, target |-> target]
        /\ outcome' = Return(calculate_kpi_health(value, target))
    /\ pc' = "done"
    /\ UNCHANGED <<calls, request, reply>>
    /\ UNCHANGED <<users, now>>

Call_calculate_kpi_trend ==
    /\ pc = "idle"
    /\ \E value \in Nums, previous_value \in Nums :
        /\ op' = "calculate_kpi_trend"
        /\ args' = [value |-> value, previous_value |-> previous_value]
        /\ outcome' = Return(calculate_kpi_trend(value, previous_value))
    /\ pc' = "done"
    /\ UNCHANGED <<calls, request, reply>>
    /\ UNCHANGED <<users, now>>

Call_enrich_kpis ==
    /\ pc = "idle"
    /\ \E kpis \in KpiLists :
        /\ op' = "enrich_kpis"
        /\ args' = [kpis |-> kpis]
        /\ outcome' = enrich_kpis(kpis)
    /\ pc' = "done"
    /\ UNCHANGED <<calls, request, reply>>
    /\ UNCHANGED <<users, now>>

Call_get_dashboard_kpi_summary ==
    /\ pc = "idle"
    /\ \E kpis \in KpiLists :
        /\ op' = "get_dashboard_kpi_summary"
        /\ args' = [kpis |-> kpis]
        /\ outcome' = get_dashboard_kpi_summary(kpis)
    /\ pc' = "done"
    /\ UNCHANGED <<calls, request, reply>>
    /\ UNCHANGED <<users, now>>

Call_generate_swot ==
    /\ pc = "idle"
    /\ \E kpis \in KpiLists :
        /\ op' = "generate_swot"
        /\ args' = [dashboard_title |-> "Sales Overview", department |-> "Sales", kpis |-> kpis]
        /\ outcome' = generate_swot("Sales Overview", "Sales", kpis)
    /\ pc' = "done"
    /\ UNCHANGED <<calls, request, reply>>
    /\ UNCHANGED <<users, now>>

\* generate_ai_summary up to the outbound call: without a credential, or when
\* building the prompt raises, the rule-based brief is returned at once.
Start_generate_ai_summary ==
    /\ pc = "idle"
    /\ \E kpis \in KpiLists, api_key \in BOOLEAN :
        LET a == [title |-> "Sales Overview", department |-> "Sales", kpis |-> kpis,
                  commentary |-> "", api_key |-> api_key]
        IN  /\ op' = "generate_ai_summary"
            /\ args' = a
            /\ IF api_key /\ PromptBuilds(EnrichedOrEmpty(kpis))
               THEN /\ pc' = "awaiting_reply"
                    /\ calls' = calls + 1
                    /\ request' = [max_tokens |-> 600, system |-> "",
                                   messages |-> <<[role |-> "user",
                                                   content |-> [prompt |-> EnrichedOrEmpty(kpis)]]>>]
                    /\ outcome' = outcome
               ELSE /\ pc' = "done"
                    /\ calls' = calls
                    /\ request' = request
                    /\ outcome' = SummaryFallback(a)
    /\ UNCHANGED reply
    /\ UNCHANGED <<users, now>>

\* as SummaryAfterFailure, with the failed call attempted again
SummaryAfterFailure_retry(a, n) ==
    [pc |-> "awaiting_reply", calls |-> n + 1, outcome |-> Return(None)]

\* the statement after a failed call in generate_ai_summary: no retry, the rule-based brief
SummaryAfterFailure(a, n) ==
    [pc |-> "done", calls |-> n, outcome |-> SummaryFallback(a)]

\* the external call of generate_ai_summary ends: the parsed brief, or the fallback
Reply_generate_ai_summary ==
    /\ pc = "awaiting_reply"
    /\ op = "generate_ai_summary"
    /\ \E r \in Replies :
        LET brief == ParseBrief(r)
            next == IF Returned(brief)
                    THEN [pc |-> "done", calls |-> calls, outcome |-> brief]
                    ELSE SummaryAfterFailure(args, calls)
        IN  /\ reply' = r
            /\ pc' = next.pc
            /\ calls' = next.calls
            /\ outcome' = next.outcome
    /\ UNCHANGED <<op, args, request>>
    /\ UNCHANGED <<users, now>>

\* generate_ai_chat_response up to the outbound call: without a credential the
\* rule-based answer is returned at once.
Start_generate_ai_chat_response ==
    /\ pc = "idle"
    /\ \E question \in Questions, dashboards \in DashboardLists,
          conversation_history \in Histories, uploaded_data \in Uploads, api_key \in BOOLEAN :
        LET a == [question |-> question, user_name |-> "Asha", user_department |-> "Sales",
                  dashboards |-> dashboards, conversation_history |-> conversation_history,
                  uploaded_data |-> uploaded_data, semantic_model_url |-> "", api_key |-> api_key]
        IN  /\ op' = "generate_ai_chat_response"
            /\ args' = a
            /\ IF api_key
               THEN /\ pc' = "awaiting_reply"
                    /\ calls' = calls + 1
                    /\ request' = [max_tokens |-> 1000,
                                   system |-> [dashboards |-> dashboards,
                                               uploaded |-> HasRows(uploaded_data)],
                                   messages |-> ChatMessages(question, conversation_history)]
                    /\ outcome' = outcome
               ELSE /\ pc' = "done"
                    /\ calls' = calls
                    /\ request' = request
                    /\ outcome' = ChatFallback(a)
    /\ UNCHANGED reply
    /\ UNCHANGED <<users, now>>

\* the statement after a failed call in generate_ai_chat_response: no retry, the rule-based answer
ChatAfterFailure(a, n) ==
    [pc |-> "done", calls |-> n, outcome |-> ChatFallback(a)]

\* the external call of generate_ai_chat_response ends: its text verbatim, or the fallback
Reply_generate_ai_chat_response ==
    /\ pc = "awaiting_reply"
    /\ op = "generate_ai_chat_response"
    /\ \E r \in Replies :
        LET text == ReplyText(r)
            next == IF Returned(text)
                    THEN [pc |-> "done", calls |-> calls, outcome |-> text]
                    ELSE ChatAfterFailure(args, calls)
        IN  /\ reply' = r
            /\ pc' = next.pc
            /\ calls' = next.calls
            /\ outcome' = next.outcome
    /\ UNCHANGED <<op, args, request>>
    /\ UNCHANGED <<users, now>>

\* the caller has the outcome; the next request starts afresh
Finish ==
    /\ pc = "done"
    /\ op' = "none"
    /\ args' = <<>>
    /\ pc' = "idle"
    /\ calls' = 0
    /\ request' = None
    /\ reply' = None
    /\ outcome' = Return(None)
    /\ UNCHANGED <<users, now>>

Next ==
    \/ Call_calculate_kpi_health
    \/ Call_calculate_kpi_trend
    \/ Call_get_dashboard_kpi_summary
    \/ Call_generate_swot
    \/ Start_generate_ai_summary
    \/ Reply_generate_ai_summary
    \/ Start_generate_ai_chat_response
    \/ Reply_generate_ai_chat_response
    \/ Call_enrich_kpis
    \/ Finish

Spec == Init /\ [][Next]_vars

----------------------------------------------------------------------------
(* The same functions on portfolios: lists of up to MaxPortfolio well-formed, *)
(* named KPIs of every status and direction.  The aggregates are pure         *)
(* functions of the list, so these requests are explored on their own.        *)

Portfolio_get_dashboard_kpi_summary ==
    /\ pc = "idle"
    /\ \E kpis \in PortfolioLists :
        /\ op' = "get_dashboard_kpi_summary"
        /\ args' = [kpis |-> kpis]
        /\ outcome' = get_dashboard_kpi_summary(kpis)
    /\ pc' = "done"
    /\ UNCHANGED <<calls, request, reply>>
    /\ UNCHANGED <<users, now>>

Portfolio_generate_swot ==
    /\ pc = "idle"
    /\ \E kpis \in PortfolioLists :
        /\ op' = "generate_swot"
        /\ args' = [dashboard_title |-> "Sales Overview", department |-> "Sales", kpis |-> kpis]
        /\ outcome' = generate_swot("Sales Overview", "Sales", kpis)
    /\ pc' = "done"
    /\ UNCHANGED <<calls, request, reply>>
    /\ UNCHANGED <<users, now>>

Portfolio_generate_ai_summary ==
    /\ pc = "idle"
    /\ \E kpis \in BriefLists, api_key \in BOOLEAN :
        LET a == [title |-> "Sales Overview", department |-> "Sales", kpis |-> kpis,
                  commentary |-> "", api_key |-> api_key]
        IN  /\ op' = "generate_ai_summary"
            /\ args' = a
            /\ IF api_key /\ PromptBuilds(EnrichedOrEmpty(kpis))
               THEN /\ pc' = "awaiting_reply"
                    /\ calls' = calls + 1
                    /\ request' = [max_tokens |-> 600, system |-> "",
                                   messages |-> <<[role |-> "user",
                                                   content |-> [prompt |-> EnrichedOrEmpty(kpis)]]>>]
                    /\ outcome' = outcome
               ELSE /\ pc' = "done"
                    /\ calls' = calls
                    /\ request' = request
                    /\ outcome' = SummaryFallback(a)
    /\ UNCHANGED reply
    /\ UNCHANGED <<users, now>>

NextPortfolio ==
    \/ Portfolio_get_dashboard_kpi_summary
    \/ Portfolio_generate_swot
    \/ Portfolio_generate_ai_summary
    \/ Reply_generate_ai_summary
    \/ Finish

SpecPortfolio == Init /\ [][NextPortfolio]_vars

----------------------------------------------------------------------------
(* The same functions with the caller's objects held by reference.  A store  *)
(* has the objects by address (objs), the addresses the caller's list holds, *)
(* in order (list), and the addresses of the list the call builds (built).   *)

\* the entries of the lists whose objects are followed: complete, without
\* previousValue, with a text that is no number, with a number as text, null
StoreEntries ==
    {Dict(Kpi(Num(10), Num(10), Num(9))),
     Dict([name |-> Str("Revenue"), value |-> Num(8), target |-> Num(10)]),
     Dict(Kpi(Str("abc"), Num(10), Num(9))),
     Dict(Kpi(Str("9"), Num(10), Num(9))),
     None}

StoreLists == {<<>>} \cup UNION {[1..n -> StoreEntries] : n \in 1..MaxKpis}

\* the caller's list on entry: its i-th entry is the object at address i
CallerStore(kpis) ==
    [objs |-> kpis, list |-> [i \in 1..Len(kpis) |-> i], built |-> <<>>]

\* as EnrichLoopStore, with the enrichment written into the caller's record
\* (kpi.update(...); enriched.append(kpi))
RECURSIVE EnrichLoopStore_in_place(_, _)
EnrichLoopStore_in_place(s, i) ==
    IF i > Len(s.list) THEN s
    ELSE LET step == EnrichStep(s.objs[s.list[i]])
         IN  IF Raised(step) THEN s
             ELSE EnrichLoopStore_in_place(
                      [s EXCEPT !.objs = [@ EXCEPT ![s.list[i]] = step.returned],
                                !.built = Append(@, s.list[i])], i + 1)

\* the loop of enrich_kpis on the store: kpi is only read (kpi.get, **kpi),
\* and enriched.append({**kpi, ...}) puts a new object at a fresh address
RECURSIVE EnrichLoopStore(_, _)
EnrichLoopStore(s, i) ==
    IF i > Len(s.list) THEN s
    ELSE LET step == EnrichStep(s.objs[s.list[i]])
         IN  IF Raised(step) THEN s
             ELSE EnrichLoopStore(
                      [s EXCEPT !.objs = Append(@, step.returned),
                                !.built = Append(@, Len(s.objs) + 1)], i + 1)

\* enriched = [] and the loop
StoreAfter_enrich_kpis(s) == EnrichLoopStore([s EXCEPT !.built = <<>>], 1)

\* get_dashboard_kpi_summary and generate_swot return early on an empty list
\* and otherwise call enrich_kpis once and read the result
StoreAfter_aggregate(s) ==
    IF s.list = <<>> THEN s ELSE StoreAfter_enrich_kpis(s)

\* generate_ai_summary calls enrich_kpis and then generate_swot on the same
\* list; every later step reads the enriched records
StoreAfter_generate_ai_summary(s) == StoreAfter_aggregate(StoreAfter_enrich_kpis(s))

Store_enrich_kpis ==
    /\ pc = "idle"
    /\ \E kpis \in StoreLists :
        /\ op' = "enrich_kpis"
        /\ args' = [kpis |-> kpis, store |-> StoreAfter_enrich_kpis(CallerStore(kpis))]
        /\ outcome' = enrich_kpis(kpis)
    /\ pc' = "done"
    /\ UNCHANGED <<calls, request, reply>>
    /\ UNCHANGED <<users, now>>

Store_get_dashboard_kpi_summary ==
    /\ pc = "idle"
    /\ \E kpis \in StoreLists :
        /\ op' = "get_dashboard_kpi_summary"
        /\ args' = [kpis |-> kpis, store |-> StoreAfter_aggregate(CallerStore(kpis))]
        /\ outcome' = get_dashboard_kpi_summary(kpis)
    /\ pc' = "done"
    /\ UNCHANGED <<calls, request, reply>>
    /\ UNCHANGED <<users, now>>

Store_generate_swot ==
    /\ pc = "idle"
    /\ \E kpis \in StoreLists :
        /\ op' = "generate_swot"
        /\ args' = [dashboard_title |-> "Sales Overview", department |-> "Sales", kpis |-> kpis,
                    store |-> StoreAfter_aggregate(CallerStore(kpis))]
        /\ outcome' = generate_swot("Sales Overview", "Sales", kpis)
    /\ pc' = "done"
    /\ UNCHANGED <<calls, request, reply>>
    /\ UNCHANGED <<users, now>>

Store_generate_ai_summary ==
    /\ pc = "idle"
    /\ \E kpis \in StoreLists, api_key \in BOOLEAN :
        LET a == [title |-> "Sales Overview", department |-> "Sales", kpis |-> kpis,
                  commentary |-> "", api_key |-> api_key,
                  store |-> StoreAfter_generate_ai_summary(CallerStore(kpis))]
        IN  /\ op' = "generate_ai_summary"
            /\ args' = a
            /\ IF api_key /\ PromptBuilds(EnrichedOrEmpty(kpis))
               THEN /\ pc' = "awaiting_reply"
                    /\ calls' = calls + 1
                    /\ request' = [max_tokens |-> 600, system |-> "",
                                   messages |-> <<[role |-> "user",
                                                   content |-> [prompt |-> EnrichedOrEmpty(kpis)]]>>]
                    /\ outcome' = outcome
               ELSE /\ pc' = "done"
                    /\ calls' = calls
                    /\ request' = request
                    /\ outcome' = SummaryFallback(a)
    /\ UNCHANGED reply
    /\ UNCHANGED <<users, now>>

NextStore ==
    \/ Store_get_dashboard_kpi_summary
    \/ Store_generate_swot
    \/ Store_generate_ai_summary
    \/ Reply_generate_ai_summary
    \/ Store_enrich_kpis
    \/ Finish

SpecStore == Init /\ [][NextStore]_vars

----------------------------------------------------------------------------
(* routes/users.py and routes/auth.py: the users table.  A handler is an     *)
(* operator from the table (and the clock) to the table it commits and its   *)
(* response; a handler that returns before db.session.commit() leaves the    *)
(* table as it was.  A caller is the identity of a token that verifies.      *)

VALID_ROLES == {"Admin", "Analyst", "Viewer"}
MAX_FAILED_LOGINS == 5
LOCKOUT_MINUTES == 15

\* the latest minute of the clock
MaxNow == 16

\* jsonify(...), status
Response(status, body) == Return([status |-> status, body |-> body])

\* what a handler hands back: the table after it, and its response
Handled(us, response) == [users |-> us, response |-> response]

\* User.is_locked
is_locked(user, t) == user.locked_until # None /\ user.locked_until.n > t

\* admin_required: the user of the token exists and has role Admin
IsAdmin(us, caller) == caller \in DOMAIN us /\ us[caller].role = "Admin"

\* User.query.filter_by(role='Admin', is_active=True).count()
admin_count(us) == Cardinality({i \in DOMAIN us : us[i].role = "Admin" /\ us[i].is_active})

\* db.session.delete(user)
Without(us, user_id) == [i \in DOMAIN us \ {user_id} |-> us[i]]

\* the assignments of update_user that reach the commit
UpdatedRow(user, data) ==
    LET r1 == IF "role" \in DOMAIN data THEN [user EXCEPT !.role = data.role] ELSE user
        r2 == IF "is_active" \in DOMAIN data THEN [r1 EXCEPT !.is_active = data.is_active] ELSE r1
    IN  IF "unlock" \in DOMAIN data /\ data.unlock
        THEN [r2 EXCEPT !.locked_until = None, !.failed_logins = 0]
        ELSE r2

update_user(us, caller, user_id, data) ==
    IF ~IsAdmin(us, caller) THEN Handled(us, Response(403, "Admin access required"))
    ELSE IF user_id \notin DOMAIN us THEN Handled(us, Response(404, "Not Found"))
    ELSE IF DOMAIN data = {} THEN Handled(us, Response(400, "No data provided"))
    ELSE IF "role" \in DOMAIN data /\ data.role \notin VALID_ROLES
    THEN Handled(us, Response(400, "Invalid role"))
    ELSE IF /\ "role" \in DOMAIN data
            /\ us[user_id].role = "Admin" /\ data.role # "Admin"
            /\ admin_count(us) <= 1
    THEN Handled(us, Response(400, "Cannot demote the last active admin"))
    ELSE IF "is_active" \in DOMAIN data /\ caller = user_id /\ ~data.is_active
    THEN Handled(us, Response(400, "Cannot deactivate your own account"))
    ELSE Handled([us EXCEPT ![user_id] = UpdatedRow(@, data)], Response(200, "User updated"))

delete_user(us, caller, user_id) ==
    IF ~IsAdmin(us, caller) THEN Handled(us, Response(403, "Admin access required"))
    ELSE IF caller = user_id THEN Handled(us, Response(400, "Cannot delete your own account"))
    ELSE IF user_id \notin DOMAIN us THEN Handled(us, Response(404, "Not Found"))
    ELSE IF us[user_id].role = "Admin" /\ admin_count(us) <= 1
    THEN Handled(us, Response(400, "Cannot delete the last active admin"))
    ELSE Handled(Without(us, user_id), Response(200, "deleted"))

toggle_user_status(us, caller, user_id) ==
    IF ~IsAdmin(us, caller) THEN Handled(us, Response(403, "Admin access required"))
    ELSE IF caller = user_id THEN Handled(us, Response(400, "Cannot change your own status"))
    ELSE IF user_id \notin DOMAIN us THEN Handled(us, Response(404, "Not Found"))
    ELSE Handled([us EXCEPT ![user_id].is_active = ~@],
                 Response(200, IF us[user_id].is_active THEN "deactivated" ELSE "activated"))

\* the texts of the model that int() parses, with the number each denotes
IntStrings == [s \in {"1", "2"} |-> IF s = "1" THEN 1 ELSE 2]

\* int(uid) of a JSON value succeeds: a number, or a text of digits
CanInt(uid) == uid.tag = "num" \/ (uid.tag = "str" /\ uid.s \in DOMAIN IntStrings)

\* int(uid), where it succeeds
ToInt(uid) == IF uid.tag = "num" THEN uid.n ELSE IntStrings[uid.s]

\* the loop of bulk_action over user_ids, from the i-th on
RECURSIVE BulkLoop(_, _, _, _)
BulkLoop(us, action, user_ids, i) ==
    IF i > Len(user_ids) THEN us
    ELSE LET uid == user_ids[i]
             found == CanInt(uid) /\ ToInt(uid) \in DOMAIN us
             after == IF ~found THEN us
                      ELSE IF action = "activate"
                      THEN [us EXCEPT ![ToInt(uid)].is_active = TRUE]
                      ELSE IF action = "deactivate"
                      THEN [us EXCEPT ![ToInt(uid)].is_active = FALSE]
                      ELSE IF action = "delete" /\ us[ToInt(uid)].role # "Admin"
                      THEN Without(us, ToInt(uid))
                      ELSE us
         IN  BulkLoop(after, action, user_ids, i + 1)

\* current.id in user_ids compares the integer with the JSON values as sent
bulk_action(us, caller, action, user_ids) ==
    IF ~IsAdmin(us, caller) THEN Handled(us, Response(403, "Admin access required"))
    ELSE IF action = "" \/ user_ids = <<>>
    THEN Handled(us, Response(400, "Action and user_ids required"))
    ELSE IF \E i \in 1..Len(user_ids) : user_ids[i] = Num(caller)
    THEN Handled(us, Response(400, "Cannot perform bulk action on your own account"))
    ELSE Handled(BulkLoop(us, action, user_ids, 1), Response(200, "Bulk action completed"))

\* unlock_user: any token, then the role of its user
unlock_user(us, caller, user_id) ==
    IF ~IsAdmin(us, caller) THEN Handled(us, Response(403, "Admin access required"))
    ELSE IF user_id \notin DOMAIN us THEN Handled(us, Response(404, "Not Found"))
    ELSE Handled([us EXCEPT ![user_id].locked_until = None, ![user_id].failed_logins = 0],
                 Response(200, "unlocked"))

\* reset_user_password; long_enough is len(new_password) >= 6
reset_user_password(us, caller, user_id, long_enough) ==
    IF ~IsAdmin(us, caller) THEN Handled(us, Response(403, "Admin access required"))
    ELSE IF user_id \notin DOMAIN us THEN Handled(us, Response(404, "Not Found"))
    ELSE IF ~long_enough
    THEN Handled(us, Response(400, "New password must be at least 6 characters"))
    ELSE Handled([us EXCEPT ![user_id].locked_until = None, ![user_id].failed_logins = 0],
                 Response(200, "Password reset"))

\* User.query.filter_by(email=email).first(): the ids with that email
WithEmail(us, email) == {i \in DOMAIN us : us[i].email = email}

\* as login, locking only after MAX_FAILED_LOGINS has been passed
login_late(us, t, email, password) ==
    IF email = "" \/ password = "" THEN Handled(us, Response(400, "Email and password are required"))
    ELSE IF WithEmail(us, email) = {} THEN Handled(us, Response(401, "Invalid email or password"))
    ELSE LET id == CHOOSE i \in WithEmail(us, email) : TRUE
             user == us[id]
         IN  IF is_locked(user, t) THEN Handled(us, Response(423, "Account locked"))
             ELSE IF password # "right"
             THEN LET failed == user.failed_logins + 1
                  IN  IF failed > MAX_FAILED_LOGINS
                      THEN Handled([us EXCEPT ![id].failed_logins = failed,
                                              ![id].locked_until = Num(t + LOCKOUT_MINUTES)],
                                   Response(423, "Too many failed attempts"))
                      ELSE Handled([us EXCEPT ![id].failed_logins = failed],
                                   Response(401, "Invalid email or password"))
             ELSE IF ~user.is_active THEN Handled(us, Response(403, "Account is deactivated"))
             ELSE Handled([us EXCEPT ![id].failed_logins = 0, ![id].locked_until = None],
                          Response(200, [token |-> id]))

\* login at minute t; password is "right" when bcrypt.check_password_hash
\* accepts it for the stored hash
login(us, t, email, password) ==
    IF email = "" \/ password = "" THEN Handled(us, Response(400, "Email and password are required"))
    ELSE IF WithEmail(us, email) = {} THEN Handled(us, Response(401, "Invalid email or password"))
    ELSE LET id == CHOOSE i \in WithEmail(us, email) : TRUE
             user == us[id]
         IN  IF is_locked(user, t) THEN Handled(us, Response(423, "Account locked"))
             ELSE IF password # "right"
             THEN LET failed == user.failed_logins + 1
                  IN  IF failed >= MAX_FAILED_LOGINS
                      THEN Handled([us EXCEPT ![id].failed_logins = failed,
                                              ![id].locked_until = Num(t + LOCKOUT_MINUTES)],
                                   Response(423, "Too many failed attempts"))
                      ELSE Handled([us EXCEPT ![id].failed_logins = failed],
                                   Response(401, "Invalid email or password"))
             ELSE IF ~user.is_active THEN Handled(us, Response(403, "Account is deactivated"))
             ELSE Handled([us EXCEPT ![id].failed_logins = 0, ![id].locked_until = None],
                          Response(200, [token |-> id]))

\* the request bodies of update_user
UpdateData ==
    {<<>>, [unlock |-> TRUE]}
    \cup {[role |-> r] : r \in VALID_ROLES \cup {"Owner"}}
    \cup {[is_active |-> b] : b \in BOOLEAN}
    \cup {[role |-> r, is_active |-> b] : r \in {"Admin", "Viewer"}, b \in BOOLEAN}

\* the user_ids of bulk_action: JSON numbers, or the same ids as text
BulkIds ==
    {<<>>}
    \cup {<<Num(i)>> : i \in UserIds}
    \cup {<<Str("1")>>, <<Str("2")>>, <<Str("abc")>>, <<Num(2), Num(3)>>, <<Num(3), Num(1)>>}

BulkActions == {"activate", "deactivate", "delete", ""}

Route_update_user ==
    /\ pc = "idle"
    /\ \E caller \in UserIds, user_id \in UserIds, data \in UpdateData :
        LET h == update_user(users, caller, user_id, data)
        IN  /\ op' = "update_user"
            /\ args' = [caller |-> caller, user_id |-> user_id, data |-> data]
            /\ users' = h.users
            /\ outcome' = h.response
    /\ pc' = "done"
    /\ UNCHANGED <<calls, request, reply, now>>

Route_delete_user ==
    /\ pc = "idle"
    /\ \E caller \in UserIds, user_id \in UserIds :
        LET h == delete_user(users, caller, user_id)
        IN  /\ op' = "delete_user"
            /\ args' = [caller |-> caller, user_id |-> user_id]
            /\ users' = h.users
            /\ outcome' = h.response
    /\ pc' = "done"
    /\ UNCHANGED <<calls, request, reply, now>>

Route_toggle_user_status ==
    /\ pc = "idle"
    /\ \E caller \in UserIds, user_id \in UserIds :
        LET h == toggle_user_status(users, caller, user_id)
        IN  /\ op' = "toggle_user_status"
            /\ args' = [caller |-> caller, user_id |-> user_id]
            /\ users' = h.users
            /\ outcome' = h.response
    /\ pc' = "done"
    /\ UNCHANGED <<calls, request, reply, now>>

Route_bulk_action ==
    /\ pc = "idle"
    /\ \E caller \in UserIds, action \in BulkActions, user_ids \in BulkIds :
        LET h == bulk_action(users, caller, action, user_ids)
        IN  /\ op' = "bulk_action"
            /\ args' = [caller |-> caller, action |-> action, user_ids |-> user_ids]
            /\ users' = h.users
            /\ outcome' = h.response
    /\ pc' = "done"
    /\ UNCHANGED <<calls, request, reply, now>>

NextUsers ==
    \/ Route_update_user
    \/ Route_delete_user
    \/ Route_toggle_user_status
    \/ Route_bulk_action
    \/ Finish

SpecUsers == Init /\ [][NextUsers]_vars

----------------------------------------------------------------------------
(* routes/auth.py: logging in to the seeded analyst account while the clock *)
(* runs and the admin unlocks it, resets its password or deactivates it.    *)

\* the email and password fields of a login request
LoginEmails == {"finance@slmg.com", "nobody@slmg.com", ""}
LoginPasswords == {"right", "wrong", ""}

Route_login ==
    /\ pc = "idle"
    /\ \E email \in LoginEmails, password \in LoginPasswords :
        LET h == login(users, now, email, password)
        IN  /\ op' = "login"
            /\ args' = [email |-> email, password |-> password]
            /\ users' = h.users
            /\ outcome' = h.response
    /\ pc' = "done"
    /\ UNCHANGED <<calls, request, reply, now>>

Route_unlock_user ==
    /\ pc = "idle"
    /\ \E caller \in UserIds, user_id \in UserIds :
        LET h == unlock_user(users, caller, user_id)
        IN  /\ op' = "unlock_user"
            /\ args' = [caller |-> caller, user_id |-> user_id]
            /\ users' = h.users
            /\ outcome' = h.response
    /\ pc' = "done"
    /\ UNCHANGED <<calls, request, reply, now>>

Route_reset_user_password ==
    /\ pc = "idle"
    /\ \E caller \in UserIds, user_id \in UserIds, long_enough \in BOOLEAN :
        LET h == reset_user_password(users, caller, user_id, long_enough)
        IN  /\ op' = "reset_user_password"
            /\ args' = [caller |-> caller, user_id |-> user_id, long_enough |-> long_enough]
            /\ users' = h.users
            /\ outcome' = h.response
    /\ pc' = "done"
    /\ UNCHANGED <<calls, request, reply, now>>

\* a minute passes between two requests
Tick ==
    /\ pc = "idle"
    /\ now < MaxNow
    /\ now' = now + 1
    /\ UNCHANGED <<op, args, pc, calls, request, reply, outcome, users>>

NextLogin ==
    \/ Route_login
    \/ Route_toggle_user_status
    \/ Route_unlock_user
    \/ Route_reset_user_password
    \/ Tick
    \/ Finish

SpecLogin == Init /\ [][NextLogin]_vars

----------------------------------------------------------------------------
(* routes/dashboards.py, routes/analytics.py: the read routes.             *)
(* A request names the user of its token and is served from the dashboards *)
(* table as it stands; a dashboard's id is its position in the table. No   *)
(* credential of the model service is configured, so the brief and the     *)
(* chat answer are the rule-based ones.                                    *)

\* the most dashboards in the table
MaxDashboards == 2

\* a row of the dashboards table
DashboardRow(title, department, is_public, kpis) ==
    Merge(Dashboard(title, department, kpis), [is_public |-> is_public, view_count |-> 0])

DashboardRows ==
    {DashboardRow("Margins", "Finance", FALSE,
                  <<NamedKpi("Volume", 10, 10, 9), NamedKpi("Margin", 9, 10, 8)>>),
     DashboardRow("Costs", "Finance", TRUE,
                  <<NamedKpi("Cost", 7, 10, 6), NamedKpi("Leads", 5, 0, 5)>>),
     DashboardRow("People", "HR", FALSE, <<NamedKpi("Leads", 5, 0, 5), None>>),
     DashboardRow("Attrition", "HR", TRUE, <<NamedKpi("Churn", 8, 10, 9)>>),
     DashboardRow("Plant", "Operations", FALSE, <<>>)}

DashboardTables == {<<>>} \cup UNION {[1..n -> DashboardRows] : n \in 1..MaxDashboards}

\* the users a valid token can name: the seeded ones and one deleted since
Tokens == UserIds \cup {4}

\* Dashboard.to_dict
to_dict(table, id) ==
    [id |-> id, title |-> table[id].title, department |-> table[id].department,
     is_public |-> table[id].is_public, view_count |-> table[id].view_count]

\* the ids of the rows department_filter lets through, in id order
department_filter(user, table) ==
    SelectSeq([i \in 1..Len(table) |-> i],
              LAMBDA i : user.role = "Admin" \/ table[i].department = user.department)

_check_dashboard_access(user, dashboard) ==
    user.role = "Admin" \/ dashboard.department = user.department \/ dashboard.is_public

ErrorSummary == [total |-> 0, green |-> 0, yellow |-> 0, red |-> 0, score |-> 0, label |-> "Error"]

\* try: the value of r, or what the except branch gives
OrElse(r, except) == IF Raised(r) THEN except ELSE r.returned

\* try: status 200 and a body of the value of r under key beside the rest,
\* or status 500 when r is an exception
Try(r, message, key, rest) ==
    IF Raised(r) THEN Response(500, message)
    ELSE Response(200, Merge(rest, [k \in {key} |-> r.returned]))

\* the same, with the items of the value of r spread beside the rest (**summary)
TrySpread(r, message, rest) ==
    IF Raised(r) THEN Response(500, message)
    ELSE Response(200, Merge(rest, r.returned))

_safe_kpi_summary(kpis) == OrElse(get_dashboard_kpi_summary(kpis), ErrorSummary)

Reverse(seq) == [i \in 1..Len(seq) |-> seq[Len(seq) + 1 - i]]

\* get_dashboards without filters: newest first
get_dashboards(us, caller, table) ==
    IF caller \notin DOMAIN us THEN Response(401, "Unauthorized")
    ELSE LET ids == Reverse(department_filter(us[caller], table))
             result == [i \in 1..Len(ids) |->
                           Merge(to_dict(table, ids[i]),
                                 [kpi_summary |-> _safe_kpi_summary(table[ids[i]].kpis)])]
         IN  Response(200, [dashboards |-> result, total |-> Len(result)])

\* get_dashboard; the view is counted before the record is built
get_dashboard(us, caller, dashboard_id, table) ==
    IF caller \notin DOMAIN us THEN Response(401, "Unauthorized")
    ELSE IF dashboard_id \notin 1..Len(table) THEN Response(404, "Dashboard not found")
    ELSE LET user == us[caller]
             dashboard == table[dashboard_id]
         IN  IF /\ user.role # "Admin"
                /\ dashboard.department # user.department
                /\ ~dashboard.is_public
             THEN Response(403, "Access denied")
             ELSE LET e == enrich_kpis(dashboard.kpis)
                  IN  IF Raised(e) THEN Response(500, "Failed to load dashboard")
                      ELSE Response(200, [dashboard |->
                               Merge(to_dict(table, dashboard_id),
                                     [view_count |-> dashboard.view_count + 1,
                                      kpis |-> e.returned,
                                      kpi_summary |-> _safe_kpi_summary(dashboard.kpis)])])

get_kpis(us, caller, dashboard_id, table) ==
    IF caller \notin DOMAIN us THEN Response(401, "Unauthorized")
    ELSE IF dashboard_id \notin 1..Len(table) THEN Response(404, "Dashboard not found")
    ELSE IF ~_check_dashboard_access(us[caller], table[dashboard_id])
    THEN Response(403, "Access denied")
    ELSE TrySpread(get_dashboard_kpi_summary(table[dashboard_id].kpis),
                   "KPI analysis failed",
                   [dashboard_id |-> dashboard_id,
                    dashboard_title |-> table[dashboard_id].title,
                    department |-> table[dashboard_id].department])

get_swot(us, caller, dashboard_id, table) ==
    IF caller \notin DOMAIN us THEN Response(401, "Unauthorized")
    ELSE IF dashboard_id \notin 1..Len(table) THEN Response(404, "Dashboard not found")
    ELSE IF ~_check_dashboard_access(us[caller], table[dashboard_id])
    THEN Response(403, "Access denied")
    ELSE Try(generate_swot(table[dashboard_id].title, table[dashboard_id].department,
                           table[dashboard_id].kpis),
             "SWOT generation failed", "swot", [dashboard_id |-> dashboard_id])

get_ai_summary(us, caller, dashboard_id, table) ==
    IF caller \notin DOMAIN us THEN Response(401, "Unauthorized")
    ELSE IF dashboard_id \notin 1..Len(table) THEN Response(404, "Dashboard not found")
    ELSE IF ~_check_dashboard_access(us[caller], table[dashboard_id])
    THEN Response(403, "Access denied")
    ELSE Try(SummaryFallback(table[dashboard_id]),
             "AI summary failed", "summary", [dashboard_id |-> dashboard_id])

\* ai_chat without uploaded rows; dashboard_id 0 stands for none given
ai_chat(us, caller, question, dashboard_id, table) ==
    IF caller \notin DOMAIN us THEN Response(401, "Unauthorized")
    ELSE IF question = <<>> THEN Response(400, "Question is required")
    ELSE LET user == us[caller]
             ids == IF dashboard_id # 0
                    THEN IF /\ dashboard_id \in 1..Len(table)
                            /\ _check_dashboard_access(user, table[dashboard_id])
                         THEN <<dashboard_id>>
                         ELSE <<>>
                    ELSE department_filter(user, table)
             dashboards_context == [i \in 1..Len(ids) |-> table[ids[i]]]
         IN  Try(ChatFallback([question |-> question, dashboards |-> dashboards_context,
                               uploaded_data |-> None]),
                 "AI chat failed", "answer",
                 [sources |-> [i \in 1..Len(ids) |-> table[ids[i]].title]])

\* the three calls of the try block of compare_dashboards, each with its
\* outcome
Compared(dashboard) ==
    [kpis |-> enrich_kpis(dashboard.kpis),
     kpi_summary |-> get_dashboard_kpi_summary(dashboard.kpis),
     swot |-> generate_swot(dashboard.title, dashboard.department, dashboard.kpis)]

\* the loop of compare_dashboards over ids, from the i-th on; CompareStep is
\* the end of an iteration, c the outcomes of its three calls
RECURSIVE CompareLoop(_, _, _, _, _)
RECURSIVE CompareStep(_, _, _, _, _, _)
CompareStep(user, ids, table, i, result, c) ==
    IF Raised(c.kpis) \/ Raised(c.kpi_summary) \/ Raised(c.swot)
    THEN Response(500, "Failed to process dashboard")
    ELSE CompareLoop(user, ids, table, i + 1,
                     Append(result, Merge(to_dict(table, ids[i]),
                                          [kpis |-> c.kpis.returned,
                                           kpi_summary |-> c.kpi_summary.returned,
                                           swot |-> c.swot.returned])))

CompareLoop(user, ids, table, i, result) ==
    IF i > Len(ids) THEN Response(200, [comparison |-> result, count |-> Len(result)])
    ELSE LET did == ids[i]
         IN  IF did \notin 1..Len(table) THEN Response(404, "Dashboard not found")
             ELSE IF ~_check_dashboard_access(user, table[did])
             THEN Response(403, "Access denied to dashboard")
             ELSE CompareStep(user, ids, table, i, result, Compared(table[did]))

compare_dashboards(us, caller, ids, table) ==
    IF caller \notin DOMAIN us THEN Response(401, "Unauthorized")
    ELSE IF Len(ids) < 2 THEN Response(400, "At least 2 dashboard IDs required")
    ELSE IF Len(ids) > 4 THEN Response(400, "Maximum 4 dashboards can be compared at once")
    ELSE CompareLoop(us[caller], ids, table, 1, <<>>)

\* as PortfolioKpisOf, with the entries that cannot be enriched left out
PortfolioKpisOf_partial(d) ==
    EnrichedOrEmpty(SelectSeq(d.kpis, LAMBDA k : k.tag = "dict"))

\* the try / except around enrich_kpis in get_portfolio_summary
PortfolioKpisOf(d) ==
    EnrichedOrEmpty(d.kpis)

ZeroStats == [dashboards |-> 0, kpis |-> 0, green |-> 0, yellow |-> 0, red |-> 0]

\* as DeptStatsStep, with the figures assigned instead of added
DeptStatsStep_assigned(before, enriched) ==
    [dashboards |-> 1,
     kpis |-> Len(enriched),
     green |-> Len(WithStatus(enriched, "GREEN")),
     yellow |-> Len(WithStatus(enriched, "YELLOW")),
     red |-> Len(WithStatus(enriched, "RED"))]

\* the five += of one dashboard on its department's figures
DeptStatsStep(before, enriched) ==
    [dashboards |-> before.dashboards + 1,
     kpis |-> before.kpis + Len(enriched),
     green |-> before.green + Len(WithStatus(enriched, "GREEN")),
     yellow |-> before.yellow + Len(WithStatus(enriched, "YELLOW")),
     red |-> before.red + Len(WithStatus(enriched, "RED"))]

\* dept_stats once a dashboard of dept is counted
WithDashboard(dept_stats, dept, enriched) ==
    Merge(dept_stats,
          [x \in {dept} |-> DeptStatsStep(Get(dept_stats, dept, ZeroStats), enriched)])

\* the loop of get_portfolio_summary over dashboards, from the i-th on
RECURSIVE PortfolioLoop(_, _, _, _)
PortfolioLoop(dashboards, i, all_kpis, dept_stats) ==
    IF i > Len(dashboards) THEN [all_kpis |-> all_kpis, dept_stats |-> dept_stats]
    ELSE PortfolioLoop(dashboards, i + 1, all_kpis \o PortfolioKpisOf(dashboards[i]),
                       WithDashboard(dept_stats, dashboards[i].department,
                                     PortfolioKpisOf(dashboards[i])))

\* the figures returned, from what the loop has gathered
PortfolioScore(total_kpis, green, yellow, red) ==
    IF total_kpis > 0
    THEN RoundHalfEven((green * 100 + yellow * 70 + red * 30) * 10, total_kpis)
    ELSE 0

PortfolioFigures(total_dashboards, loop) ==
    [total_dashboards |-> total_dashboards,
     total_kpis |-> Len(loop.all_kpis),
     green |-> Len(WithStatus(loop.all_kpis, "GREEN")),
     yellow |-> Len(WithStatus(loop.all_kpis, "YELLOW")),
     red |-> Len(WithStatus(loop.all_kpis, "RED")),
     portfolio_score |-> PortfolioScore(Len(loop.all_kpis),
                                        Len(WithStatus(loop.all_kpis, "GREEN")),
                                        Len(WithStatus(loop.all_kpis, "YELLOW")),
                                        Len(WithStatus(loop.all_kpis, "RED"))),
     by_department |-> loop.dept_stats]

get_portfolio_summary(us, caller, table) ==
    IF caller \notin DOMAIN us THEN Response(401, "Unauthorized")
    ELSE LET ids == department_filter(us[caller], table)
             dashboards == [i \in 1..Len(ids) |-> table[ids[i]]]
         IN  Response(200, PortfolioFigures(Len(dashboards),
                                            PortfolioLoop(dashboards, 1, <<>>, <<>>)))

\* the requests of the model
DashboardIds == 1..(MaxDashboards + 1)

CompareIds == {<<1>>, <<1, 2>>, <<2, 1>>, <<1, 1>>, <<1, 2, 1, 2, 1>>}

ChatQuestions == {<<>>, <<"Finance", "summary">>, <<"hello">>}

Route_get_dashboards ==
    /\ pc = "idle"
    /\ \E caller \in Tokens, table \in DashboardTables :
        /\ op' = "get_dashboards"
        /\ args' = [caller |-> caller, table |-> table]
        /\ outcome' = get_dashboards(users, caller, table)
    /\ pc' = "done"
    /\ UNCHANGED <<calls, request, reply, users, now>>

Route_get_dashboard ==
    /\ pc = "idle"
    /\ \E caller \in Tokens, dashboard_id \in DashboardIds, table \in DashboardTables :
        /\ op' = "get_dashboard"
        /\ args' = [caller |-> caller, dashboard_id |-> dashboard_id, table |-> table]
        /\ outcome' = get_dashboard(users, caller, dashboard_id, table)
    /\ pc' = "done"
    /\ UNCHANGED <<calls, request, reply, users, now>>

Route_get_kpis ==
    /\ pc = "idle"
    /\ \E caller \in Tokens, dashboard_id \in DashboardIds, table \in DashboardTables :
        /\ op' = "get_kpis"
        /\ args' = [caller |-> caller, dashboard_id |-> dashboard_id, table |-> table]
        /\ outcome' = get_kpis(users, caller, dashboard_id, table)
    /\ pc' = "done"
    /\ UNCHANGED <<calls, request, reply, users, now>>

Route_get_swot ==
    /\ pc = "idle"
    /\ \E caller \in Tokens, dashboard_id \in DashboardIds, table \in DashboardTables :
        /\ op' = "get_swot"
        /\ args' = [caller |-> caller, dashboard_id |-> dashboard_id, table |-> table]
        /\ outcome' = get_swot(users, caller, dashboard_id, table)
    /\ pc' = "done"
    /\ UNCHANGED <<calls, request, reply, users, now>>

Route_get_ai_summary ==
    /\ pc = "idle"
    /\ \E caller \in Tokens, dashboard_id \in DashboardIds, table \in DashboardTables :
        /\ op' = "get_ai_summary"
        /\ args' = [caller |-> caller, dashboard_id |-> dashboard_id, table |-> table]
        /\ outcome' = get_ai_summary(users, caller, dashboard_id, table)
    /\ pc' = "done"
    /\ UNCHANGED <<calls, request, reply, users, now>>

Route_ai_chat ==
    /\ pc = "idle"
    /\ \E caller \in Tokens, question \in ChatQuestions,
          dashboard_id \in {0} \cup DashboardIds, table \in DashboardTables :
        /\ op' = "ai_chat"
        /\ args' = [caller |-> caller, question |-> question,
                    dashboard_id |-> dashboard_id, table |-> table]
        /\ outcome' = ai_chat(users, caller, question, dashboard_id, table)
    /\ pc' = "done"
    /\ UNCHANGED <<calls, request, reply, users, now>>

Route_compare_dashboards ==
    /\ pc = "idle"
    /\ \E caller \in Tokens, ids \in CompareIds, table \in DashboardTables :
        /\ op' = "compare_dashboards"
        /\ args' = [caller |-> caller, ids |-> ids, table |-> table]
        /\ outcome' = compare_dashboards(users, caller, ids, table)
    /\ pc' = "done"
    /\ UNCHANGED <<calls, request, reply, users, now>>

Route_get_portfolio_summary ==
    /\ pc = "idle"
    /\ \E caller \in Tokens, table \in DashboardTables :
        /\ op' = "get_portfolio_summary"
        /\ args' = [caller |-> caller, table |-> table]
        /\ outcome' = get_portfolio_summary(users, caller, table)
    /\ pc' = "done"
    /\ UNCHANGED <<calls, request, reply, users, now>>

NextAccess ==
    \/ Route_get_dashboards
    \/ Route_get_dashboard
    \/ Route_get_kpis
    \/ Route_get_swot
    \/ Route_get_ai_summary
    \/ Route_ai_chat
    \/ Route_compare_dashboards
    \/ Route_get_portfolio_summary
    \/ Finish

SpecAccess == Init /\ [][NextAccess]_vars

----------------------------------------------------------------------------
(* Properties *)

HealthKeys == {"status", "color", "label", "pct", "gap", "gap_pct"}
TrendKeys == {"direction", "change_pct", "change_abs", "icon", "color"}
NumericKeys == {"value", "target", "previousValue"}

\* a KPI record in which a present value, target or previousValue is no number
FailsCoercion(kpi) ==
    /\ kpi.tag = "dict"
    /\ \E k \in NumericKeys \cap DOMAIN kpi.items : ~CanFloat(kpi.items[k])

\* a KPI record whose target, after coercion, is 0
HasZeroTarget(kpi) ==
    /\ kpi.tag = "dict"
    /\ ~FailsCoercion(kpi)
    /\ ToFloat(Get(kpi.items, "target", Num(0))) = 0

\* seq without its i-th element
RemoveAt(seq, i) == SubSeq(seq, 1, i - 1) \o SubSeq(seq, i + 1, Len(seq))

\* C1: enrich_kpis never raises: for every input list the call returns a list.
C1_EnrichNeverRaises ==
    op = "enrich_kpis" => Returned(outcome)

Ratings == {"Excellent", "Good", "Moderate", "Critical"}

\* C2: generate_ai_summary never raises past its boundary: whatever the KPI
\* list and the external call do, a result record is returned.
C2_SummaryNeverRaises ==
    (op = "generate_ai_summary" /\ pc = "done") => Returned(outcome)

\* C3: whatever the external service does, the record generate_ai_summary
\* returns has executive_summary, risk_analysis, strategic_recommendation,
\* overall_rating, priority_action and source, with overall_rating one of
\* Excellent, Good, Moderate, Critical.
C3_BriefWellFormed ==
    (op = "generate_ai_summary" /\ pc = "done" /\ Returned(outcome)) =>
        /\ BriefKeys \cup {"source"} \subseteq DOMAIN outcome.returned
        /\ outcome.returned["overall_rating"] \in Ratings

\* the external call of the invocation failed: transport, timeout or parse error
CallFailed ==
    /\ reply # None
    /\ \/ op = "generate_ai_summary" /\ Raised(ParseBrief(reply))
       \/ op = "generate_ai_chat_response" /\ Raised(ReplyText(reply))

\* C4: an invocation of generate_ai_summary or generate_ai_chat_response makes
\* at most one outbound call, none without a credential, and after a failed
\* call it ends with the deterministic fallback and no second attempt.
C4_AtMostOneOutboundCall ==
    (op \in {"generate_ai_summary", "generate_ai_chat_response"}) =>
        /\ calls <= 1
        /\ ~args.api_key => (calls = 0 /\ request = None /\ pc = "done")
        /\ CallFailed =>
            /\ calls = 1
            /\ pc = "done"
            /\ op = "generate_ai_summary" => outcome = SummaryFallback(args)
            /\ op = "generate_ai_chat_response" => outcome = ChatFallback(args)

C4_Witness ==
    /\ op = "generate_ai_summary"
    /\ args.api_key
    /\ pc = "done"
    /\ reply = [kind |-> "timeout"]
    /\ calls = 1
    /\ Returned(outcome)
    /\ outcome.returned.source = "Rule-Based Engine (set ANTHROPIC_API_KEY for AI-powered insights)"

\* C5: for target > 0 the status is GREEN when value >= target, YELLOW when
\* 0.9*target <= value < target, RED when value < 0.9*target, and it is one
\* of these three.
C5_HealthThresholds ==
    (op = "calculate_kpi_health" /\ args.target > 0) =>
        LET value == args.value
            target == args.target
            status == outcome.returned.status
        IN  /\ (value >= target) => status = "GREEN"
            /\ (9 * target <= 10 * value /\ value < target) => status = "YELLOW"
            /\ (10 * value < 9 * target) => status = "RED"
            /\ status \in {"GREEN", "YELLOW", "RED"}

C5_Witness ==
    /\ op = "calculate_kpi_health"
    /\ args.target > 0
    /\ 10 * args.value = 9 * args.target
    /\ outcome.returned.status = "YELLOW"

\* C6: a KPI whose target is 0 is NEUTRAL with pct = 0 whatever its value, and
\* get_dashboard_kpi_summary counts it in total but in none of green, yellow, red.
C6_ZeroTargetNeutral ==
    /\ (op = "calculate_kpi_health" /\ args.target = 0) =>
            /\ outcome.returned.status = "NEUTRAL"
            /\ outcome.returned.pct = 0
    /\ (op = "get_dashboard_kpi_summary" /\ Returned(outcome)) =>
            LET kpis == args.kpis
                s == outcome.returned
                zero == Cardinality({i \in 1..Len(kpis) : HasZeroTarget(kpis[i])})
            IN  /\ s.total = Len(kpis)
                /\ s.green + s.yellow + s.red + zero <= s.total

C6_Witness ==
    /\ op = "get_dashboard_kpi_summary"
    /\ Returned(outcome)
    /\ \E i \in 1..Len(args.kpis) :
        /\ HasZeroTarget(args.kpis[i])
        /\ "value" \in DOMAIN args.kpis[i].items
        /\ args.kpis[i].items["value"] = Num(10)
    /\ outcome.returned.total = 2
    /\ outcome.returned.green = 1

\* the direction part of C7, shared by the claim as written and as amended
TrendDirectionRule ==
    LET value == args.value
        previous == args.previous_value
        t == outcome.returned
    IN  /\ (previous = 0) => (t.direction = "STABLE" /\ t.change_pct = 0)
        /\ (previous # 0 /\ value > previous) => t.direction = "UP"
        /\ (previous # 0 /\ value < previous) => t.direction = "DOWN"
        /\ (previous # 0 /\ value = previous) => t.direction = "STABLE"

\* C7 as written: ... and change_pct = (value - previousValue)/abs(previousValue)*100.
\* change_pct is held in tenths, so the equation reads
\* change_pct * abs(previous) = (value - previous) * 1000.
C7_TrendExactChange ==
    op = "calculate_kpi_trend" =>
        /\ TrendDirectionRule
        /\ (args.previous_value # 0) =>
              outcome.returned.change_pct * Abs(args.previous_value)
                  = (args.value - args.previous_value) * 1000

\* C7 as amended: previousValue = 0 gives STABLE with change_pct 0; otherwise the
\* sign of value - previousValue gives the direction, and change_pct is
\* (value - previousValue)/abs(previousValue)*100 rounded to one decimal, that is
\* within half a tenth of it.
C7_TrendRoundedChange ==
    op = "calculate_kpi_trend" =>
        /\ TrendDirectionRule
        /\ (args.previous_value # 0) =>
              2 * Abs(outcome.returned.change_pct * Abs(args.previous_value)
                        - (args.value - args.previous_value) * 1000)
                  <= Abs(args.previous_value)

C7_Witness ==
    /\ op = "calculate_kpi_trend"
    /\ args.previous_value < 0
    /\ args.value > args.previous_value
    /\ outcome.returned.direction = "UP"
    /\ outcome.returned.change_pct * Abs(args.previous_value)
          # (args.value - args.previous_value) * 1000

\* C8: an entry that fails numeric coercion is emitted with its original fields
\* plus health.status NEUTRAL and trend.direction STABLE, and the rest of the
\* list fares exactly as it does without that entry.
C8_MalformedEntryIsolated ==
    op = "enrich_kpis" =>
        \A i \in 1..Len(args.kpis) :
            FailsCoercion(args.kpis[i]) =>
                LET without == enrich_kpis(RemoveAt(args.kpis, i))
                IN  /\ Raised(outcome) <=> Raised(without)
                    /\ Returned(outcome) =>
                        LET out == outcome.returned
                            orig == args.kpis[i].items
                        IN  /\ Len(out) = Len(args.kpis)
                            /\ DOMAIN out[i].items = DOMAIN orig \cup {"health", "trend"}
                            /\ \A k \in DOMAIN orig : out[i].items[k] = orig[k]
                            /\ out[i].items["health"].status = "NEUTRAL"
                            /\ out[i].items["trend"].direction = "STABLE"
                            /\ RemoveAt(out, i) = without.returned

C8_Witness ==
    /\ op = "enrich_kpis"
    /\ Returned(outcome)
    /\ Len(args.kpis) = 2
    /\ FailsCoercion(args.kpis[1])
    /\ args.kpis[1].items["value"] = Str("abc")
    /\ ~FailsCoercion(args.kpis[2])
    /\ outcome.returned[1].items["health"].status = "NEUTRAL"
    /\ outcome.returned[2].items["health"].status = "GREEN"

\* C9: the list enrich_kpis returns has the length of its input, its i-th
\* element is the enrichment of the i-th input, and [] gives [].
C9_SameLengthSameOrder ==
    op = "enrich_kpis" =>
        /\ Returned(outcome) =>
            /\ Len(outcome.returned) = Len(args.kpis)
            /\ \A i \in 1..Len(args.kpis) :
                  outcome.returned[i] = EnrichStep(args.kpis[i]).returned
        /\ (args.kpis = <<>>) => outcome = Return(<<>>)

C9_Witness ==
    /\ op = "enrich_kpis"
    /\ Returned(outcome)
    /\ Len(args.kpis) = 2
    /\ outcome.returned[1].items["health"].status = "RED"
    /\ outcome.returned[2].items["health"].status = "GREEN"

\* C10: every health record carries status, color, label, pct, gap and gap_pct,
\* and every trend record direction, change_pct, change_abs, icon and color,
\* target = 0 and failed coercions included.
C10_RecordsComplete ==
    /\ op = "calculate_kpi_health" => DOMAIN outcome.returned = HealthKeys
    /\ op = "calculate_kpi_trend" => DOMAIN outcome.returned = TrendKeys
    /\ (op = "enrich_kpis" /\ Returned(outcome)) =>
          \A i \in 1..Len(outcome.returned) :
              /\ DOMAIN outcome.returned[i].items["health"] = HealthKeys
              /\ DOMAIN outcome.returned[i].items["trend"] = TrendKeys

\* C11: for a list of N KPIs the summary's score is
\* (green*100 + yellow*70 + red*30)/(N*100)*100 rounded to one decimal (held in
\* tenths: within half a tenth of the quotient), green, yellow and red being
\* the numbers of entries of each status; the label is Healthy from 80,
\* Moderate from 60 and At Risk below; the empty list gives exactly total 0,
\* green 0, yellow 0, red 0, score 0, label No Data.
C11_PortfolioScore ==
    (op = "get_dashboard_kpi_summary" /\ Returned(outcome)) =>
        LET s == outcome.returned
            N == Len(args.kpis)
            n(status) == Cardinality({i \in 1..N :
                             EnrichStep(args.kpis[i]).returned.items["health"].status = status})
        IN  IF N = 0
            THEN s = [total |-> 0, green |-> 0, yellow |-> 0, red |-> 0,
                      score |-> 0, label |-> "No Data"]
            ELSE /\ s.total = N
                 /\ s.green = n("GREEN") /\ s.yellow = n("YELLOW") /\ s.red = n("RED")
                 /\ 2 * Abs(s.score * N - (s.green * 100 + s.yellow * 70 + s.red * 30) * 10) <= N
                 /\ s.label = IF s.score >= 800 THEN "Healthy"
                              ELSE IF s.score >= 600 THEN "Moderate"
                              ELSE "At Risk"

C11_Witness ==
    /\ op = "get_dashboard_kpi_summary"
    /\ Returned(outcome)
    /\ Len(args.kpis) = 4
    /\ outcome.returned.green = 2
    /\ outcome.returned.yellow = 1
    /\ outcome.returned.red = 1
    /\ outcome.returned.score = 750
    /\ outcome.returned.label = "Moderate"

\* the status enrich_kpis gives one raw entry
StatusOf(kpi) == EnrichStep(kpi).returned.items["health"].status

\* RED below YELLOW below GREEN
StatusRank == [RED |-> 1, YELLOW |-> 2, GREEN |-> 3]

\* the lists obtained from kpis by changing one KPI so that its status goes
\* from RED to YELLOW or GREEN, or from YELLOW to GREEN, the others unchanged
Reclassifications(kpis) ==
    {l \in {[kpis EXCEPT ![i] = better] : i \in 1..Len(kpis), better \in PortfolioKpis} :
        \E i \in 1..Len(kpis) :
            /\ kpis[i].tag = "dict"
            /\ StatusOf(kpis[i]) \in {"RED", "YELLOW"}
            /\ StatusOf(l[i]) \in {"YELLOW", "GREEN"}
            /\ StatusRank[StatusOf(l[i])] > StatusRank[StatusOf(kpis[i])]
            /\ \A j \in 1..Len(kpis) : j # i => l[j] = kpis[j]}

\* C12: reclassifying one KPI of a list upwards (RED to YELLOW or GREEN, YELLOW
\* to GREEN), every other KPI unchanged, never lowers the score of
\* get_dashboard_kpi_summary.
C12_ScoreMonotone ==
    (op = "get_dashboard_kpi_summary" /\ Returned(outcome)) =>
        \A better \in Reclassifications(args.kpis) :
            get_dashboard_kpi_summary(better).returned.score >= outcome.returned.score

C12_Witness ==
    /\ op = "get_dashboard_kpi_summary"
    /\ Returned(outcome)
    /\ Len(args.kpis) = 3
    /\ outcome.returned.red = 1
    /\ outcome.returned.yellow = 1
    /\ \E better \in Reclassifications(args.kpis) :
          /\ get_dashboard_kpi_summary(better).returned.red = 0
          /\ get_dashboard_kpi_summary(better).returned.yellow = 2
          /\ get_dashboard_kpi_summary(better).returned.score > outcome.returned.score

\* the direction enrich_kpis gives one raw entry
DirectionOf(kpi) == EnrichStep(kpi).returned.items["trend"].direction

\* the name a sentence gives one raw entry
NameOf(kpi) == Get(kpi.items, "name", Str("KPI"))

\* the names of the KPI sentences of one category of a SWOT result, in order
Listed(category) ==
    LET sentences == SelectSeq(category, LAMBDA x : "placeholder" \notin DOMAIN x)
    IN  [i \in 1..Len(sentences) |-> sentences[i].name]

\* the names of the KPIs of a list that satisfy Qualifies, in order
NamesWhere(kpis, Qualifies(_)) ==
    LET sel == SelectSeq(kpis, Qualifies)
    IN  [i \in 1..Len(sel) |-> NameOf(sel[i])]

\* C13: none of strengths, weaknesses, opportunities, threats of a SWOT result
\* is an empty list, whatever the KPI list, the empty list included: a category
\* no KPI qualifies for holds one placeholder sentence naming the department.
C13_CategoriesNeverEmpty ==
    (op = "generate_swot" /\ Returned(outcome)) =>
        \A b \in {"strengths", "weaknesses", "opportunities", "threats"} :
            LET category == outcome.returned[b]
            IN  /\ category # <<>>
                /\ Listed(category) = <<>> =>
                      /\ Len(category) = 1
                      /\ category[1].department = args.department

DistinctNames(kpis) ==
    \A i, j \in 1..Len(kpis) : NameOf(kpis[i]) = NameOf(kpis[j]) => i = j

C16_HealthScore ==
    (op = "generate_swot" /\ Returned(outcome)) =>
        LET total == Len(args.kpis)
            green_count == Cardinality({i \in 1..total : StatusOf(args.kpis[i]) = "GREEN"})
        IN  /\ "health_score" \in DOMAIN outcome.returned
            /\ IF total = 0 THEN outcome.returned.health_score = 0
               ELSE 2 * Abs(outcome.returned.health_score * total - green_count * 100) <= total

RuleBasedSources ==
    {"Rule-Based Engine",
     "Rule-Based Engine (set ANTHROPIC_API_KEY for AI-powered insights)"}

\* the health_score of the SWOT of the request's KPI list, 0 where there is none
SwotHealthScore ==
    LET w == generate_swot(args.title, args.department, args.kpis)
    IN  IF Returned(w) /\ "health_score" \in DOMAIN w.returned
        THEN w.returned.health_score ELSE 0

\* C17: without a credential generate_ai_summary always returns a result, its
\* source says rule-based, and its overall_rating is Excellent for a SWOT
\* health_score of 80 or more, Good from 60, Moderate from 40, Critical below.
C17_RuleBasedRating ==
    (op = "generate_ai_summary" /\ ~args.api_key /\ pc = "done") =>
        /\ Returned(outcome)
        /\ outcome.returned.source \in RuleBasedSources
        /\ outcome.returned.overall_rating =
              IF SwotHealthScore >= 80 THEN "Excellent"
              ELSE IF SwotHealthScore >= 60 THEN "Good"
              ELSE IF SwotHealthScore >= 40 THEN "Moderate"
              ELSE "Critical"

\* the request ended with the rule-based brief of a non-empty enriched list
RuleBasedBrief ==
    /\ op = "generate_ai_summary"
    /\ pc = "done"
    /\ Returned(outcome)
    /\ outcome.returned.source
          = "Rule-Based Engine (set ANTHROPIC_API_KEY for AI-powered insights)"

\* the percentage of target enrich_kpis gives one raw entry with a target
PctOf(kpi) == EnrichStep(kpi).returned.items["health"].pct

\* C18: in the rule-based summary priority_action is an escalation naming the
\* RED KPI with the lowest percentage of target when some KPI is RED, and a
\* maintain sentence when none is.
C18_PriorityNamesWorstRed ==
    RuleBasedBrief =>
        LET kpis == args.kpis
            red == {i \in 1..Len(kpis) : StatusOf(kpis[i]) = "RED"}
            p == outcome.returned.priority_action
        IN  IF red # {}
            THEN /\ p.action = "Escalate"
                 /\ \E i \in red : /\ p.name = NameOf(kpis[i])
                                   /\ \A j \in red : PctOf(kpis[i]) <= PctOf(kpis[j])
            ELSE p.action = "Maintain"

\* C19: in the rule-based summary risk_analysis lists KPIs that are declining
\* (DOWN) or RED, each at most once, and when it leaves some of them out the
\* KPIs that are both DOWN and RED go before those that are only one of the two.
C19_RiskUnionOnceEach ==
    (RuleBasedBrief /\ DistinctNames(args.kpis)) =>
        LET kpis == args.kpis
            parts == outcome.returned.risk_analysis.parts
            down(i) == DirectionOf(kpis[i]) = "DOWN"
            red(i) == StatusOf(kpis[i]) = "RED"
            listed(i) == \E n \in 1..Len(parts) : parts[n].name = NameOf(kpis[i])
        IN  /\ \A m, n \in 1..Len(parts) : parts[m].name = parts[n].name => m = n
            /\ \A n \in 1..Len(parts) :
                  \E i \in 1..Len(kpis) : /\ parts[n].name = NameOf(kpis[i])
                                          /\ down(i) \/ red(i)
            /\ (\E i \in 1..Len(kpis) : listed(i) /\ ~(down(i) /\ red(i))) =>
                  \A j \in 1..Len(kpis) : (down(j) /\ red(j)) => listed(j)

\* the keywords of the four intents of the chat fallback, as words of a question
WorstWords == {"worst", "risk", "critical"}
BestWords == {"best", "top"}
CountWords == {"count", "summary"}
TrendWords == {"trend", "improving", "declining"}

\* the request was answered by the chat fallback: no credential, or a failed call
ChatFellBack ==
    /\ op = "generate_ai_chat_response"
    /\ pc = "done"
    /\ ~args.api_key \/ CallFailed

\* C20: in the chat fallback with dashboards in scope the answer follows the
\* keywords of the question: worst / risk / critical cites the lowest-health
\* RED KPI of the target dashboard, best / top its highest-health GREEN KPI,
\* count / summary its counts by status, trend / improving / declining its
\* KPIs by direction.  Stated by what such an answer cannot be: the answer the
\* same question gets once the keywords are taken out of it.
C20_FallbackFollowsKeywords ==
    (ChatFellBack /\ args.dashboards # <<>> /\ ~HasRows(args.uploaded_data)) =>
        LET q == LowerText(args.question)
            plain == SelectSeq(args.question,
                         LAMBDA w : Lower(w) \notin WorstWords \cup BestWords
                                                  \cup CountWords \cup TrendWords)
            generic == _rule_based_chat_with_data(plain, args.dashboards, args.uploaded_data)
            enriched == EnrichedOrEmpty(TargetDashboard(q, args.dashboards).kpis)
            answer == outcome.returned
        IN  /\ (ContainsAny(q, WorstWords) /\ WithStatus(enriched, "RED") # <<>>)
                  => answer # generic
            /\ (ContainsAny(q, BestWords) /\ WithStatus(enriched, "GREEN") # <<>>)
                  => answer # generic
            /\ (ContainsAny(q, CountWords) /\ enriched # <<>>)
                  => answer # generic
            /\ (ContainsAny(q, TrendWords)
                    /\ WithDirection(enriched, "UP") \o WithDirection(enriched, "DOWN") # <<>>)
                  => answer # generic


\* d.title.lower() in q or d.department.lower() in q, as the claims read it
MatchesQuestion(q, d) == Contains(q, Lower(d.title)) \/ Contains(q, Lower(d.department))

\* some supplied dashboard matches the question
SomeDashboardMatches(q, dashboards) ==
    \E i \in 1..Len(dashboards) : MatchesQuestion(q, dashboards[i])

\* the answers built from the uploaded rows
UploadKinds == {"upload_summary", "upload_chart", "upload_notice"}

\* C21: in the chat fallback the uploaded dataset is the source of the answer
\* when it has rows and no supplied dashboard matches the question; when a
\* supplied dashboard matches the question, the answer comes from that
\* dashboard's enriched data.
C21_ChatSource ==
    ChatFellBack =>
        LET q == LowerText(args.question)
            answer == outcome.returned
        IN  /\ (HasRows(args.uploaded_data) /\ ~SomeDashboardMatches(q, args.dashboards))
                  => answer.kind \in UploadKinds
            /\ SomeDashboardMatches(q, args.dashboards)
                  => /\ answer.kind = "dashboard_status"
                     /\ answer.title = TargetDashboard(q, args.dashboards).title


\* the last n turns of a history, in their order
LastTurns(history, n) ==
    SubSeq(history, IF Len(history) > n THEN Len(history) - n + 1 ELSE 1, Len(history))

\* the turn as it is forwarded
Forwarded(turn) == [role |-> turn.role, content |-> turn.content]

\* the external chat call was made: request holds what was posted
ChatCallMade ==
    /\ op = "generate_ai_chat_response"
    /\ args.api_key
    /\ pc \in {"awaiting_reply", "done"}

\* C22 as stated: the forwarded messages are a trailing window of 8 to 10
\* turns of the history without the turns of a role other than user and
\* assistant, followed by the question as a user message.
C22_WindowByRole ==
    ChatCallMade =>
        \E w \in 8..10 :
            LET kept == SelectSeq(LastTurns(args.conversation_history, w),
                                  LAMBDA h : Get(h, "role", "None") \in {"user", "assistant"})
            IN  request.messages =
                    [i \in 1..Len(kept) |-> Forwarded(kept[i])]
                        \o <<[role |-> "user", content |-> args.question]>>

\* C22: the forwarded messages are the last 8 turns of the history, in their
\* order, without the turns whose role is neither user nor assistant and
\* without the turns whose content is empty, followed by the question as the
\* final user message; nothing is raised for a dropped turn.
C22_WindowByRoleAndContent ==
    ChatCallMade =>
        LET kept == SelectSeq(LastTurns(args.conversation_history, 8),
                              LAMBDA h : /\ Get(h, "role", "None") \in {"user", "assistant"}
                                         /\ Get(h, "content", "") # "")
        IN  /\ request.messages =
                  [i \in 1..Len(kept) |-> Forwarded(kept[i])]
                      \o <<[role |-> "user", content |-> args.question]>>
            /\ pc = "done" => Returned(outcome)

\* the long conversation was cut to its last 8 turns and lost its tool turn
C22_Witness ==
    /\ ChatCallMade
    /\ Len(args.conversation_history) > 10
    /\ Len(request.messages) = 8
    /\ request.messages[1] = [role |-> "assistant", content |-> "a2"]
    /\ request.messages[2] = [role |-> "user", content |-> "q3"]
    /\ request.messages[3] = [role |-> "user", content |-> "q4"]
    /\ request.messages[8] = [role |-> "user", content |-> args.question]


\* the positions of the dashboards that match the question
MatchingPositions(q, dashboards) ==
    {i \in 1..Len(dashboards) : MatchesQuestion(q, dashboards[i])}

\* the fallback answered from the dashboards: there are some, and no uploaded rows
AnsweredFromDashboards ==
    /\ ChatFellBack
    /\ args.dashboards # <<>>
    /\ ~HasRows(args.uploaded_data)

\* C23: the target dashboard of the chat fallback is the first dashboard, in
\* input order, whose title or department occurs in the question whatever the
\* case of the letters; when none matches it is the first dashboard supplied.
C23_FirstMatchWins ==
    AnsweredFromDashboards =>
        LET q == LowerText(args.question)
            M == MatchingPositions(q, args.dashboards)
            first == IF M = {} THEN 1 ELSE CHOOSE i \in M : \A j \in M : i <= j
            expected == args.dashboards[first]
            answer == outcome.returned
        IN  /\ answer.title = expected.title
            /\ answer.department = expected.department
            /\ answer.tracked = Len(EnrichedOrEmpty(expected.kpis))

\* two dashboards match a question written in small letters: the first wins
C23_Witness ==
    /\ AnsweredFromDashboards
    /\ Len(args.dashboards) = 2
    /\ MatchingPositions(LowerText(args.question), args.dashboards) = {1, 2}
    /\ args.question = <<"compare", "sales", "margins">>
    /\ args.dashboards[1].title = "Margins"
    /\ outcome.returned.title = "Margins"
    /\ outcome.returned.department = "Finance"


\* the addresses in a list of addresses
Addresses(refs) == {refs[i] : i \in 1..Len(refs)}

\* a call on the caller's objects has run its enrichment
StoreCallRan ==
    /\ op \in {"enrich_kpis", "get_dashboard_kpi_summary", "generate_swot", "generate_ai_summary"}
    /\ pc \in {"awaiting_reply", "done"}

\* C24: enrich_kpis, get_dashboard_kpi_summary, generate_swot and
\* generate_ai_summary leave the caller's list and every record in it as they
\* were passed (same length, same keys, same values); the enriched records are
\* new objects, and the list enrich_kpis returns is made of them.
C24_CallerRecordsUnchanged ==
    StoreCallRan =>
        LET s == args.store
        IN  /\ Len(s.list) = Len(args.kpis)
            /\ \A i \in 1..Len(s.list) : s.objs[s.list[i]] = args.kpis[i]
            /\ Addresses(s.built) \cap Addresses(s.list) = {}
            /\ (op = "enrich_kpis" /\ Returned(outcome)) =>
                  outcome.returned = [j \in 1..Len(s.built) |-> s.objs[s.built[j]]]

\* a record without previousValue and one whose value is the text "9" were
\* enriched: the new records differ from them, which are as they were
C24_Witness ==
    /\ op = "enrich_kpis"
    /\ pc = "done"
    /\ Returned(outcome)
    /\ Len(args.kpis) = 2
    /\ "previousValue" \notin DOMAIN args.kpis[1].items
    /\ args.kpis[2].items.value = Str("9")
    /\ "previousValue" \notin DOMAIN args.store.objs[1].items
    /\ args.store.objs[2].items.value = Str("9")
    /\ args.store.built = <<3, 4>>
    /\ args.store.objs[3].items.previousValue = Num(8)
    /\ args.store.objs[4].items.value = Num(9)


\* the active users of role Admin
ActiveAdmins == {i \in DOMAIN users : users[i].role = "Admin" /\ users[i].is_active}

\* C27: the last active admin can never be removed: whatever update_user,
\* delete_user, toggle_user_status and bulk_action requests are made with
\* admin tokens, starting with an active user of role Admin, an active user of
\* role Admin still exists.
C27_ActiveAdminRemains == ActiveAdmins # {}


\* the response carries a token
IssuesToken(o) == o.returned.status = 200 /\ "token" \in DOMAIN o.returned.body

\* what one login request to an existing account does, from the table and
\* clock before it to the table and response after it
LoginStepOk(id, password, before, after, response) ==
    /\ is_locked(before, now) =>
          /\ response.returned.status = 423
          /\ ~IssuesToken(response)
          /\ after = before
    /\ (~is_locked(before, now) /\ password = "wrong") =>
          /\ after.failed_logins = before.failed_logins + 1
          /\ ~IssuesToken(response)
          /\ before.failed_logins = 4 =>
                /\ after.locked_until = Num(now + 15)
                /\ is_locked(after, now)
          /\ before.failed_logins < 4 => after.locked_until = before.locked_until
    /\ IssuesToken(response) =>
          /\ ~is_locked(before, now)
          /\ password = "right"
          /\ after.failed_logins = 0
          /\ after.locked_until = None

LacksPrevious(kpi) ==
    /\ kpi.tag = "dict"
    /\ "previousValue" \notin DOMAIN kpi.items
    /\ Coercible(kpi.items)

\* C26: a raw KPI without a previousValue field is enriched with previousValue
\* equal to its value, and its trend is STABLE with change_pct 0; the missing
\* field raises nothing.
C26_PreviousDefaultsToValue ==
    (op = "enrich_kpis" /\ pc = "done") =>
        /\ (\A i \in 1..Len(args.kpis) : args.kpis[i].tag = "dict") => Returned(outcome)
        /\ Returned(outcome) =>
              \A i \in 1..Len(args.kpis) :
                  LacksPrevious(args.kpis[i]) =>
                      LET e == outcome.returned[i].items
                      IN  /\ e.previousValue = e.value
                          /\ e.value = Num(ToFloat(Get(args.kpis[i].items, "value", Num(0))))
                          /\ e.trend.direction = "STABLE"
                          /\ e.trend.change_pct = 0

\* a KPI of value 10 without previousValue, next to one that has it
C26_Witness ==
    /\ op = "enrich_kpis"
    /\ Returned(outcome)
    /\ Len(args.kpis) = 2
    /\ LacksPrevious(args.kpis[1])
    /\ "value" \in DOMAIN args.kpis[1].items
    /\ args.kpis[1].items.value = Num(10)
    /\ outcome.returned[1].items.previousValue = Num(10)
    /\ outcome.returned[1].items.trend.direction = "STABLE"
    /\ "previousValue" \in DOMAIN args.kpis[2].items
    /\ outcome.returned[2].items.trend.direction = "UP"


----------------------------------------------------------------------------
(* The portfolio across dashboards *)

PortfolioRan ==
    /\ pc = "done"
    /\ op = "get_portfolio_summary"
    /\ args.caller \in DOMAIN users

\* the dashboards of the table the caller's portfolio is made of
PortfolioRows ==
    SelectSeq(args.table, LAMBDA d : \/ users[args.caller].role = "Admin"
                                     \/ d.department = users[args.caller].department)

EnrichmentFails(d) == Raised(enrich_kpis(d.kpis))

\* the statuses of the KPIs a dashboard brings to the portfolio: none when
\* its enrichment fails
CountedStatuses(d) ==
    IF EnrichmentFails(d) THEN <<>> ELSE [i \in 1..Len(d.kpis) |-> StatusOf(d.kpis[i])]

HowMany(statuses, status) == Cardinality({i \in 1..Len(statuses) : statuses[i] = status})

RECURSIVE SumOf(_)
SumOf(numbers) == IF numbers = <<>> THEN 0 ELSE Head(numbers) + SumOf(Tail(numbers))

\* the sum over rows of what each brings: its number of counted KPIs, or of
\* those with a given status
Brought(rows, status) ==
    SumOf([i \in 1..Len(rows) |->
              IF status = "any" THEN Len(CountedStatuses(rows[i]))
              ELSE HowMany(CountedStatuses(rows[i]), status)])

\* C25: in the portfolio computation a dashboard whose enrichment fails brings
\* no KPI to the global and per-department counts, and the computation ends
\* with status 200 and the figures of all the other dashboards: each count is
\* the sum, over the dashboards whose enrichment succeeds, of their KPIs.
C25_FailedDashboardCountsZero ==
    PortfolioRan =>
        LET body == outcome.returned.body
            rows == PortfolioRows
            ofDept(dept) == SelectSeq(rows, LAMBDA d : d.department = dept)
        IN  /\ outcome.returned.status = 200
            /\ body.total_dashboards = Len(rows)
            /\ body.total_kpis = Brought(rows, "any")
            /\ body.green = Brought(rows, "GREEN")
            /\ body.yellow = Brought(rows, "YELLOW")
            /\ body.red = Brought(rows, "RED")
            /\ DOMAIN body.by_department = {rows[i].department : i \in 1..Len(rows)}
            /\ \A dept \in DOMAIN body.by_department :
                  /\ body.by_department[dept].dashboards = Len(ofDept(dept))
                  /\ body.by_department[dept].kpis = Brought(ofDept(dept), "any")
                  /\ body.by_department[dept].green = Brought(ofDept(dept), "GREEN")
                  /\ body.by_department[dept].yellow = Brought(ofDept(dept), "YELLOW")
                  /\ body.by_department[dept].red = Brought(ofDept(dept), "RED")

\* an Admin's portfolio of a dashboard whose enrichment fails and one with
\* two KPIs: two dashboards, two KPIs
C25_Witness ==
    /\ PortfolioRan
    /\ Len(PortfolioRows) = 2
    /\ EnrichmentFails(PortfolioRows[1])
    /\ Len(PortfolioRows[1].kpis) = 2
    /\ ~EnrichmentFails(PortfolioRows[2])
    /\ outcome.returned.body.total_dashboards = 2
    /\ outcome.returned.body.total_kpis = 2
    /\ outcome.returned.body.by_department["HR"].kpis = 0

RECURSIVE SumFigure(_, _, _)
SumFigure(stats, depts, figure) ==
    IF depts = {} THEN 0
    ELSE LET dept == CHOOSE x \in depts : TRUE
         IN  stats[dept][figure] + SumFigure(stats, depts \ {dept}, figure)

\* C30: in the result of get_portfolio_summary total_dashboards, total_kpis,
\* green, yellow and red are each the sum over by_department of the
\* department's figure, and green + yellow + red <= total_kpis, with equality
\* exactly when none of the KPIs counted is NEUTRAL.
C30_TotalsAreDepartmentSums ==
    PortfolioRan =>
        LET body == outcome.returned.body
            stats == body.by_department
            depts == DOMAIN stats
        IN  /\ body.total_dashboards = SumFigure(stats, depts, "dashboards")
            /\ body.total_kpis = SumFigure(stats, depts, "kpis")
            /\ body.green = SumFigure(stats, depts, "green")
            /\ body.yellow = SumFigure(stats, depts, "yellow")
            /\ body.red = SumFigure(stats, depts, "red")
            /\ body.green + body.yellow + body.red <= body.total_kpis
            /\ (body.green + body.yellow + body.red = body.total_kpis)
                   <=> (Brought(PortfolioRows, "NEUTRAL") = 0)

\* an Admin's portfolio of two Finance dashboards, one of whose four KPIs is
\* NEUTRAL
C30_Witness ==
    /\ PortfolioRan
    /\ DOMAIN outcome.returned.body.by_department = {"Finance"}
    /\ outcome.returned.body.by_department["Finance"].dashboards = 2
    /\ outcome.returned.body.total_kpis = 4
    /\ outcome.returned.body.green + outcome.returned.body.yellow
           + outcome.returned.body.red = 3


----------------------------------------------------------------------------
(* Department access *)

\* the caller is an Admin, or the dashboard is of the caller's department
OwnDepartment(dashboard_id) ==
    \/ users[args.caller].role = "Admin"
    \/ args.table[dashboard_id].department = users[args.caller].department

\* the ids of the dashboards whose data a successful response carries
DashboardsReturned ==
    LET body == outcome.returned.body
    IN  CASE op \in {"get_kpis", "get_swot", "get_ai_summary"} -> {body.dashboard_id}
          [] op = "get_dashboard" -> {body.dashboard.id}
          [] op = "get_dashboards" -> {body.dashboards[i].id : i \in 1..Len(body.dashboards)}
          [] op = "compare_dashboards" -> {body.comparison[i].id : i \in 1..Len(body.comparison)}
          [] op = "ai_chat" ->
                IF args.dashboard_id # 0
                THEN IF body.sources = <<>> THEN {} ELSE {args.dashboard_id}
                ELSE {i \in 1..Len(args.table) : \E j \in 1..Len(body.sources) :
                                                    body.sources[j] = args.table[i].title}
          [] OTHER -> {}

ReadServed ==
    /\ pc = "done"
    /\ op \in {"get_dashboards", "get_dashboard", "get_kpis", "get_swot", "get_ai_summary",
               "ai_chat", "compare_dashboards", "get_portfolio_summary"}
    /\ outcome.returned.status = 200

\* C29: an Admin is given all the dashboards, and a user of any other role
\* only those of their own department: every dashboard whose data a read
\* route returns (list, single dashboard, KPI summary, SWOT, brief, chat
\* context, comparison) is of the caller's department unless the caller is an
\* Admin, the list and the portfolio of an Admin cover the whole table, and
\* the portfolio of any other user counts the dashboards of their department.
C29_OwnDepartmentOnly ==
    ReadServed =>
        /\ \A id \in DashboardsReturned : OwnDepartment(id)
        /\ op = "get_dashboards" =>
              outcome.returned.body.total =
                  Cardinality({i \in 1..Len(args.table) : OwnDepartment(i)})
        /\ op = "get_portfolio_summary" =>
              outcome.returned.body.total_dashboards =
                  Cardinality({i \in 1..Len(args.table) : OwnDepartment(i)})

====
